---- MODULE Spec2Model ----
(***************************************************************************)
(* Model of the eda-embeddingsearch search engine: tokenizer, inverted     *)
(* index, scoring engine, exhaustive Search and IndexedSearch.             *)
(*                                                                         *)
(* Go strings are TLA+ strings; a byte of a string s is SubSeq(s, i, i).   *)
(* float64 scores are integers in units of 1/Scale (every weight of the    *)
(* scoring configuration is a multiple of 0.5).                            *)
(***************************************************************************)
EXTENDS Integers, Sequences, FiniteSets, TLC

VARIABLES db, call, results

vars == <<db, call, results>>

(***************************************************************************)
(* Package strings, as far as the engine uses it.                          *)
(***************************************************************************)
CharAt(s, i) == SubSeq(s, i, i)

Contains(s, substr) ==
    \E i \in 1..(Len(s) - Len(substr) + 1) : SubSeq(s, i, i + Len(substr) - 1) = substr

HasSuffix(s, suffix) ==
    /\ Len(s) >= Len(suffix)
    /\ SubSeq(s, Len(s) - Len(suffix) + 1, Len(s)) = suffix

HasPrefix(s, prefix) ==
    /\ Len(s) >= Len(prefix)
    /\ SubSeq(s, 1, Len(prefix)) = prefix

\* strings.Index, 1-based; 0 when substr does not occur (Go: -1)
Index(s, substr) ==
    IF Contains(s, substr)
    THEN CHOOSE i \in 1..(Len(s) - Len(substr) + 1) :
            /\ SubSeq(s, i, i + Len(substr) - 1) = substr
            /\ \A j \in 1..(i - 1) : SubSeq(s, j, j + Len(substr) - 1) # substr
    ELSE 0

\* strings.Count for a one-byte separator
Count(s, c) == Cardinality({i \in 1..Len(s) : CharAt(s, i) = c})

UpperLetters == "ABCDEFGHIJKLMNOPQRSTUVWXYZ"
LowerLetters == "abcdefghijklmnopqrstuvwxyz"

UpperSet == {CharAt(UpperLetters, i) : i \in 1..Len(UpperLetters)}

ToLowerChar(c) ==
    IF c \in UpperSet
    THEN CharAt(LowerLetters, CHOOSE i \in 1..Len(UpperLetters) : CharAt(UpperLetters, i) = c)
    ELSE c

\* the bytes lo..hi of s, lowered; halving keeps the evaluation shallow
RECURSIVE ToLowerRange(_, _, _)
ToLowerRange(s, lo, hi) ==
    IF lo > hi THEN ""
    ELSE IF lo = hi THEN ToLowerChar(CharAt(s, lo))
    ELSE LET mid == (lo + hi) \div 2
         IN  ToLowerRange(s, lo, mid) \o ToLowerRange(s, mid + 1, hi)

ToLower(s) ==
    IF \A i \in 1..Len(s) : CharAt(s, i) \notin UpperSet THEN s
    ELSE ToLowerRange(s, 1, Len(s))

\* strings.ReplaceAll(s, old, " ") for a one-byte old
RECURSIVE ReplaceWithSpaceRange(_, _, _, _)
ReplaceWithSpaceRange(s, old, lo, hi) ==
    IF lo > hi THEN ""
    ELSE IF lo = hi THEN (IF CharAt(s, lo) = old THEN " " ELSE CharAt(s, lo))
    ELSE LET mid == (lo + hi) \div 2
         IN  ReplaceWithSpaceRange(s, old, lo, mid)
                \o ReplaceWithSpaceRange(s, old, mid + 1, hi)

ReplaceWithSpace(s, old) ==
    IF \A i \in 1..Len(s) : CharAt(s, i) # old THEN s
    ELSE ReplaceWithSpaceRange(s, old, 1, Len(s))

IsSpace(c) == c \in {" ", "\t", "\n", "\r"}

\* strings.Fields: the maximal runs of non-space bytes, in order
Fields(s) ==
    LET starts == {i \in 1..Len(s) :
                      ~IsSpace(CharAt(s, i)) /\ (i = 1 \/ IsSpace(CharAt(s, i - 1)))}
        ends   == {i \in 1..Len(s) :
                      ~IsSpace(CharAt(s, i)) /\ (i = Len(s) \/ IsSpace(CharAt(s, i + 1)))}
        nth(S, k) == CHOOSE i \in S : Cardinality({j \in S : j <= i}) = k
    IN  [k \in 1..Cardinality(starts) |-> SubSeq(s, nth(starts, k), nth(ends, k))]

\* slices.Contains
SliceContains(list, x) == \E i \in 1..Len(list) : list[i] = x

\* append-if-absent over a list: the "if !slices.Contains { append }" idiom
AppendUnique(list, x) == IF SliceContains(list, x) THEN list ELSE Append(list, x)

RECURSIVE AppendAllUnique(_, _)
AppendAllUnique(list, more) ==
    IF more = <<>> THEN list
    ELSE AppendAllUnique(AppendUnique(list, Head(more)), Tail(more))

\* strings.Join
RECURSIVE Join(_, _)
Join(elems, sep) ==
    IF Len(elems) = 0 THEN ""
    ELSE IF Len(elems) = 1 THEN elems[1]
    ELSE elems[1] \o sep \o Join(Tail(elems), sep)

RECURSIVE SumOver(_, _)
SumOver(f, n) == IF n = 0 THEN 0 ELSE f[n] + SumOver(f, n - 1)

(***************************************************************************)
(* Tokenizer (internal/search/tokenizer.go)                                *)
(***************************************************************************)
MinTokenLength == 2

stopWords ==
    {"the", "a", "an", "and", "or", "but", "in", "on", "at", "to",
     "for", "of", "with", "by", "from", "is", "are", "was", "were", "been",
     "have", "has", "had", "do", "does", "did", "will", "would", "could", "should",
     "may", "might", "must", "can", "what", "which", "who", "when", "where", "how",
     "why", "that", "this", "these", "those", "i", "me", "my", "mine", "we",
     "us", "our", "ours", "you", "your", "yours", "he", "him", "his", "she",
     "her", "hers", "it", "its", "they", "them", "their", "theirs"}

\* Tokenize's filtered copy: tokens that are no stop word, or are one of the
\* four always-kept words
FilterStopWords(tokens) ==
    SelectSeq(tokens, LAMBDA t : t \notin stopWords \/ t \in {"all", "show", "get", "list"})

\* a faulty Tokenize: stop words are filtered whatever the number of meaningful
\* words
TokenizeAlwaysFiltered(s) ==
    FilterStopWords(Fields(ReplaceWithSpace(ReplaceWithSpace(ReplaceWithSpace(
        ToLower(s), "."), "-"), "_")))

\* a faulty Tokenize: the filtering loop starts at the second token
TokenizeSkipFirst(s) ==
    CHOOSE out \in
        {IF Cardinality({i \in 1..Len(tokens) :
                tokens[i] \notin stopWords /\ Len(tokens[i]) >= MinTokenLength}) >= 2
         THEN FilterStopWords(SubSeq(tokens, 2, Len(tokens)))
         ELSE tokens :
            tokens \in {Fields(ReplaceWithSpace(ReplaceWithSpace(ReplaceWithSpace(
                            ToLower(s), "."), "-"), "_"))}} : TRUE

Tokenize(s) ==
    LET lowered == ToLower(s)
        spaced  == ReplaceWithSpace(ReplaceWithSpace(ReplaceWithSpace(lowered, "."), "-"), "_")
        tokens  == Fields(spaced)
        meaningfulWords ==
            Cardinality({i \in 1..Len(tokens) :
                            tokens[i] \notin stopWords /\ Len(tokens[i]) >= MinTokenLength})
    IN  IF meaningfulWords >= 2 THEN FilterStopWords(tokens) ELSE tokens

synonyms ==
    [stats |-> "statistics", stat |-> "statistics", alarms |-> "alarm", alarm |-> "alarms",
     fanspeed |-> "fan", temp |-> "temperature", temps |-> "temperature", mtu |-> "mtu",
     interswitch |-> "link", links |-> "link", iface |-> "interface", ifaces |-> "interface",
     intf |-> "interface", intfs |-> "interface", interfaces |-> "interface",
     neighbors |-> "neighbor", routes |-> "route", metrics |-> "metric",
     info |-> "information", config |-> "configure", configuration |-> "configure",
     inferface |-> "interface", inferfaces |-> "interface", interace |-> "interface",
     intrface |-> "interface", interfce |-> "interface", interfacs |-> "interface",
     interfaes |-> "interface", inerface |-> "interface", inerfaces |-> "interface",
     statitics |-> "statistics", statsitics |-> "statistics", statistcs |-> "statistics",
     statistis |-> "statistics", neighors |-> "neighbor", neigbors |-> "neighbor",
     neighbor |-> "neighbor", routers |-> "router", sysem |-> "system", systm |-> "system",
     bandwith |-> "bandwidth", bandwdth |-> "bandwidth", alrms |-> "alarm", alrm |-> "alarm",
     confg |-> "configure", cofig |-> "configure", usge |-> "usage", useage |-> "usage",
     dwn |-> "down", drps |-> "drops", drop |-> "drops"]
    @@ ("fan-speed" :> "fan")

\* a faulty ExpandSynonyms: a word with a synonym is kept and the synonym added
RECURSIVE ExpandSynonymsFanOut(_)
ExpandSynonymsFanOut(words) ==
    IF words = <<>> THEN <<>>
    ELSE (IF Head(words) \in DOMAIN synonyms
          THEN <<Head(words), synonyms[Head(words)]>>
          ELSE <<Head(words)>>) \o ExpandSynonymsFanOut(Tail(words))

ExpandSynonyms(words) ==
    [i \in 1..Len(words) |->
        IF words[i] \in DOMAIN synonyms THEN synonyms[words[i]] ELSE words[i]]

(***************************************************************************)
(* Entry metadata: json.Unmarshal of EmbeddingEntry.Text into               *)
(* {Description string; Fields []string}.  The decoder is modelled for the  *)
(* catalog's blob shape {"Description":"...","Fields":["a","b"]}: a text    *)
(* that is not a {...} object fails to decode, a missing member decodes to  *)
(* its zero value.                                                          *)
(***************************************************************************)
Quote == "\""

\* the bytes of s from position i up to (not including) the next occurrence of stop
TakeUntil(s, i, stop) ==
    LET rest == SubSeq(s, i, Len(s))
        at   == Index(rest, stop)
    IN  IF at = 0 THEN rest ELSE SubSeq(rest, 1, at - 1)

StripQuotes(t) ==
    IF Len(t) >= 2 /\ HasPrefix(t, Quote) /\ HasSuffix(t, Quote)
    THEN SubSeq(t, 2, Len(t) - 1) ELSE t

jsonUnmarshal(text) ==
    LET descTag   == Quote \o "Description" \o Quote \o ":" \o Quote
        fieldsTag == Quote \o "Fields" \o Quote \o ":["
        descAt    == Index(text, descTag)
        fieldsAt  == Index(text, fieldsTag)
        inner     == TakeUntil(text, fieldsAt + Len(fieldsTag), "]")
        items     == Fields(ReplaceWithSpace(inner, ","))
    IN  IF ~(HasPrefix(text, "{") /\ HasSuffix(text, "}"))
        THEN [err |-> TRUE, Description |-> "", Fields |-> <<>>]
        ELSE [err |-> FALSE,
              Description |-> IF descAt = 0 THEN ""
                              ELSE TakeUntil(text, descAt + Len(descTag), Quote),
              Fields |-> IF fieldsAt = 0 THEN <<>>
                         ELSE [i \in 1..Len(items) |-> StripQuotes(items[i])]]

\* eql.ParseEmbeddingText
ParseEmbeddingText(text) ==
    LET data == jsonUnmarshal(text) IN IF data.err THEN <<>> ELSE data.Fields

(***************************************************************************)
(* Clause extractor: field extraction (internal/eql)                       *)
(***************************************************************************)
\* eql.FieldKeywordMappings: the keyword -> field-name-fragment table
FieldKeywordMappings ==
    [state       |-> <<"admin-state", "oper-state", "state">>,
     status      |-> <<"status", "oper-state", "admin-state">>,
     description |-> <<"description">>,
     name        |-> <<"name">>,
     memory      |-> <<"memory", "memory-usage", "used">>,
     cpu         |-> <<"cpu", "cpu-usage">>,
     traffic     |-> <<"in-octets", "out-octets">>,
     bandwidth   |-> <<"in-octets", "out-octets">>,
     packets     |-> <<"in-packets", "out-packets">>,
     errors      |-> <<"in-error-packets", "out-error-packets", "in-errors", "out-errors">>,
     severity    |-> <<"severity">>,
     time        |-> <<"time-created", "last-change", "last-clear">>,
     octets      |-> <<"in-octets", "out-octets">>,
     mtu         |-> <<"mtu", "ip-mtu", "oper-ip-mtu">>,
     drops       |-> <<"in-drops", "out-drops", "in-discards", "out-discards">>,
     speed       |-> <<"port-speed", "lag-speed", "member-speed">>,
     vlan        |-> <<"vlan-tagging", "vlan-id", "tpid">>,
     lag         |-> <<"aggregate-id", "lag-type", "lacp-mode">>,
     optical     |-> <<"form-factor", "connector-type", "wavelength">>,
     transceiver |-> <<"form-factor", "vendor", "serial-number">>,
     fiber       |-> <<"physical-medium", "connector-type", "wavelength">>,
     copper      |-> <<"physical-medium", "ethernet-pmd">>,
     sfp         |-> <<"form-factor", "vendor-part-number">>,
     mac         |-> <<"hw-mac-address", "system-id-mac">>,
     power       |-> <<"input-power", "output-power", "laser-bias-current">>,
     vendor      |-> <<"vendor", "vendor-part-number", "vendor-serial-number">>,
     aggregate   |-> <<"aggregate-id", "lag-type", "min-links">>,
     lacp        |-> <<"lacp-mode", "lacp-port-priority", "interval">>,
     tagged      |-> <<"vlan-tagging", "vlan-id">>,
     physical    |-> <<"physical-medium", "linecard", "forwarding-complex">>,
     hardware    |-> <<"hw-mac-address", "form-factor", "vendor">>]

\* the table's keywords in the order the source lists them
FieldKeywordList ==
    <<"state", "status", "description", "name", "memory", "cpu", "traffic", "bandwidth",
      "packets", "errors", "severity", "time", "octets", "mtu", "drops", "speed", "vlan",
      "lag", "optical", "transceiver", "fiber", "copper", "sfp", "mac", "power", "vendor",
      "aggregate", "lacp", "tagged", "physical", "hardware">>

\* ExtractFields' closure findMatchingFields
RECURSIVE findMatchingFieldsFrom(_, _, _, _)
findMatchingFieldsFrom(keywords, availableFields, n, matches) ==
    IF n > Len(keywords) * Len(availableFields) THEN matches
    ELSE LET keyword   == keywords[((n - 1) \div Len(availableFields)) + 1]
             available == availableFields[((n - 1) % Len(availableFields)) + 1]
         IN  findMatchingFieldsFrom(keywords, availableFields, n + 1,
                IF Contains(ToLower(available), keyword)
                THEN AppendUnique(matches, available) ELSE matches)

findMatchingFields(keywords, availableFields) ==
    findMatchingFieldsFrom(keywords, availableFields, 1, <<>>)

\* the loop "for keyword, possibleFields := range fieldKeywords" of ExtractFields,
\* the map visited in the order kwOrder
RECURSIVE ExtractFieldsLoop(_, _, _, _, _)
ExtractFieldsLoop(lower, availableFields, kwOrder, i, fields) ==
    IF i > Len(kwOrder) THEN fields
    ELSE ExtractFieldsLoop(lower, availableFields, kwOrder, i + 1,
            IF Contains(lower, kwOrder[i])
            THEN AppendAllUnique(fields,
                    findMatchingFields(FieldKeywordMappings[kwOrder[i]], availableFields))
            ELSE fields)

\* a faulty ExtractFields: the keyword loop stops at the first keyword of the
\* table that the query contains
ExtractFieldsFirstKeyword(query, tablePath, entry, kwOrder) ==
    LET lower == ToLower(query)
        hits  == {i \in 1..Len(kwOrder) : Contains(lower, kwOrder[i])}
        first == CHOOSE i \in hits : \A j \in hits : i <= j
    IN  IF hits = {} THEN <<>>
        ELSE findMatchingFields(FieldKeywordMappings[kwOrder[first]],
                                ParseEmbeddingText(entry.Text))

\* ExtractFields that suggests "statistics" whether or not a field was found
ExtractFieldsAlwaysSuggest(query, tablePath, entry, kwOrder) ==
    LET lower           == ToLower(query)
        availableFields == ParseEmbeddingText(entry.Text)
        fields          == ExtractFieldsLoop(lower, availableFields, kwOrder, 1, <<>>)
    IN  IF /\ Contains(lower, "error")
           /\ Contains(tablePath, "interface")
           /\ ~Contains(tablePath, "statistics")
        THEN AppendUnique(fields, "statistics")
        ELSE fields

\* eql.ExtractFields; kwOrder is the iteration order of the fieldKeywords map
ExtractFields(query, tablePath, entry, kwOrder) ==
    LET lower           == ToLower(query)
        availableFields == ParseEmbeddingText(entry.Text)
        fields          == ExtractFieldsLoop(lower, availableFields, kwOrder, 1, <<>>)
    IN  IF /\ Contains(lower, "error")
           /\ Contains(tablePath, "interface")
           /\ ~Contains(tablePath, "statistics")
           /\ Len(fields) = 0
        THEN <<"statistics">>
        ELSE fields

(***************************************************************************)
(* Scoring engine (scoring_config.go, scoreEntry and its sub-scores)       *)
(***************************************************************************)
\* float64 scores are counted in units of 1/Scale
Scale == 2

\* search.DefaultScoringConfig
config ==
    [LastSegmentMatch |-> 10 * Scale, KeywordMatchInterface |-> 8 * Scale,
     KeywordMatchStats |-> 6 * Scale, KeywordMatchState |-> 4 * Scale,
     KeywordMatchDefault |-> 3 * Scale, TextMatch |-> 1 * Scale,
     DescriptionWordMatch |-> 3 * Scale, DescriptionListMatch |-> 5 * Scale,
     DescriptionAllMatch |-> 3 * Scale, DescriptionShowMatch |-> 2 * Scale,
     DescriptionGetMatch |-> 2 * Scale, DescriptionMultiMatch |-> 5 * Scale,
     InterfaceEndMatch |-> 20 * Scale, InterfaceStatsMatch |-> 15 * Scale,
     InterfacePluralMatch |-> 10 * Scale, InterfaceSecurityPenalty |-> -20 * Scale,
     InterfaceProtocolPenalty |-> -15 * Scale,
     BGPNeighborMatch |-> 15 * Scale, BGPSessionStateBonus |-> 20 * Scale,
     BGPNonNeighborPenalty |-> -15 * Scale, BGPGeneralMatch |-> 10 * Scale,
     BGPMaintenancePenalty |-> -10 * Scale, BGPMaintenanceSessionPenalty |-> -25 * Scale,
     PathDepthBonus2 |-> 20 * Scale, PathDepthBonus3 |-> 10 * Scale,
     PathDepthBonus4 |-> 5 * Scale, PathDepthPenaltyFactor |-> 2,
     SegmentExactMatch |-> 10 * Scale, SegmentNearMatch |-> 6 * Scale,
     SegmentFarMatch |-> 2 * Scale,
     SubinterfaceExactMatch |-> 10 * Scale, SubinterfacePartialMatch |-> 2 * Scale,
     ExactTableMatch |-> 6 * Scale, BigramMatch |-> 2 * Scale,
     FieldExtractScore |-> 3,
     SequenceMatch |-> 8 * Scale, SequencePartialMatch |-> 4 * Scale,
     ShowStateBonus |-> 5 * Scale, AllWordsMatchBonus |-> 3 * Scale,
     ProtocolPenalty |-> -10 * Scale, MaintenancePenalty |-> -8 * Scale,
     ErrorFieldBonus |-> 10 * Scale, BandwidthFieldBonus |-> 10 * Scale]

conditionalScore(condition, score) == IF condition THEN score ELSE 0

containsAllScore(text, substrings, score) ==
    IF \A i \in 1..Len(substrings) : Contains(text, substrings[i]) THEN score ELSE 0

containsAnyScore(text, substrings, score) ==
    IF \E i \in 1..Len(substrings) : Contains(text, substrings[i]) THEN score ELSE 0

suffixScore(text, suffix, score) == conditionalScore(HasSuffix(text, suffix), score)

\* the first threshold, from the last one down, whose Count is <= count
countBasedScore(count, thresholds) ==
    LET hits == {i \in 1..Len(thresholds) : count >= thresholds[i].Count}
    IN  IF hits = {} THEN 0
        ELSE thresholds[CHOOSE i \in hits : \A j \in hits : j <= i].Score

keywordScoreV2(keyTokens, textTokens, words) ==
    LET lastSegment == keyTokens[Len(keyTokens)]
        lastScore ==
            IF Len(keyTokens) > 0 /\ Len(words) > 0
            THEN SumOver([i \in 1..Len(words) |->
                    conditionalScore(lastSegment = words[i], config.LastSegmentMatch)],
                    Len(words))
            ELSE 0
        wordScores ==
            [interface |-> config.KeywordMatchInterface,
             interfaces |-> config.KeywordMatchInterface,
             statistics |-> config.KeywordMatchStats,
             state |-> config.KeywordMatchState,
             configure |-> config.KeywordMatchState]
        wordScore(w) ==
            IF SliceContains(keyTokens, w)
            THEN (IF w \in DOMAIN wordScores THEN wordScores[w]
                  ELSE config.KeywordMatchDefault)
            ELSE IF SliceContains(textTokens, w) THEN config.TextMatch ELSE 0
        pathMatchCount ==
            Cardinality({i \in 1..Len(words) : SliceContains(keyTokens, words[i])})
    IN  lastScore
        + SumOver([i \in 1..Len(words) |-> wordScore(words[i])], Len(words))
        + (IF pathMatchCount = Len(words) /\ Len(words) > 1
           THEN Len(words) * config.AllWordsMatchBonus ELSE 0)

descriptionScoreV2(queryLower, entry, words) ==
    LET embeddingInfo == jsonUnmarshal(entry.Text)
        descTokens == Tokenize(embeddingInfo.Description)
        descLower  == ToLower(embeddingInfo.Description)
        descMatchCount ==
            Cardinality({i \in 1..Len(words) : SliceContains(descTokens, words[i])})
        patterns ==
            <<[QueryPattern |-> "list of", DescPattern |-> "list of",
               Score |-> config.DescriptionListMatch],
              [QueryPattern |-> "all", DescPattern |-> "all",
               Score |-> config.DescriptionAllMatch],
              [QueryPattern |-> "show", DescPattern |-> "display",
               Score |-> config.DescriptionShowMatch],
              [QueryPattern |-> "get", DescPattern |-> "retrieve",
               Score |-> config.DescriptionGetMatch]>>
    IN  IF embeddingInfo.err THEN 0
        ELSE descMatchCount * config.DescriptionWordMatch
             + SumOver([i \in 1..Len(patterns) |->
                    containsAllScore(queryLower \o " " \o descLower,
                        <<patterns[i].QueryPattern, patterns[i].DescPattern>>,
                        patterns[i].Score)], Len(patterns))
             + conditionalScore(descMatchCount >= 2 /\ descMatchCount >= Len(words) \div 2,
                                config.DescriptionMultiMatch)

hasSessionStateKeywords(queryLower) ==
    \E keyword \in {"established", "down", "up", "active", "session", "state", "status"} :
        Contains(queryLower, keyword)

bgpContextScore(queryLower, key) ==
    IF ~Contains(queryLower, "bgp") THEN 0
    ELSE (IF \/ Contains(queryLower, "neighbor")
             \/ Contains(queryLower, "session")
             \/ Contains(queryLower, "peer")
          THEN containsAllScore(key, <<"bgp", ".neighbor">>, config.BGPNeighborMatch)
               + (IF hasSessionStateKeywords(queryLower) /\ HasSuffix(key, ".neighbor")
                  THEN config.BGPSessionStateBonus ELSE 0)
               + (IF ~Contains(key, ".neighbor") /\ hasSessionStateKeywords(queryLower)
                  THEN config.BGPNonNeighborPenalty ELSE 0)
               + (IF /\ Contains(key, "maintenance")
                     /\ ~Contains(queryLower, "maintenance")
                     /\ hasSessionStateKeywords(queryLower)
                  THEN config.BGPMaintenanceSessionPenalty ELSE 0)
          ELSE 0)
         + (IF /\ Contains(queryLower, "bgp")
               /\ ~Contains(queryLower, "neighbor")
               /\ ~Contains(queryLower, "session")
            THEN containsAllScore(key, <<"bgp">>, config.BGPGeneralMatch) ELSE 0)
         + conditionalScore(Contains(key, "maintenance"), config.BGPMaintenancePenalty)

suffixMatchScore(key, words) ==
    SumOver([i \in 1..Len(words) |->
                suffixScore(key, "." \o words[i], config.ExactTableMatch)], Len(words))

bigramMatchScore(keyLower, words) ==
    SumOver([n \in 1..(Len(words) * Len(words)) |->
                LET w1 == words[((n - 1) \div Len(words)) + 1]
                    w2 == words[((n - 1) % Len(words)) + 1]
                IN  IF w1 # w2
                    THEN conditionalScore(Contains(keyLower, w1 \o "." \o w2),
                                          config.BigramMatch)
                    ELSE 0],
            Len(words) * Len(words))

sequenceMatchScore(queryLower, key) ==
    IF ~Contains(queryLower, "interface") \/ ~Contains(queryLower, "statistics") THEN 0
    ELSE IF Contains(key, "interface.statistics") THEN config.SequenceMatch
    ELSE IF Contains(key, "interface") /\ Contains(key, "statistics")
         THEN config.SequencePartialMatch
    ELSE 0

subinterfaceMatchScore(queryLower, key) ==
    IF ~Contains(queryLower, "subinterface") \/ ~Contains(key, "subinterface") THEN 0
    ELSE suffixScore(key, ".subinterface", config.SubinterfaceExactMatch)
         + (IF ~HasSuffix(key, ".subinterface") THEN config.SubinterfacePartialMatch ELSE 0)

interfaceScoreV2(key, keyLower, queryLower) ==
    LET protocolsInQuery ==
            containsAnyScore(queryLower, <<"bgp", "ospf", "isis">>, 1) > 0
        protocolsInKey ==
            containsAnyScore(keyLower,
                <<"protocols.bgp", "protocols.ospf", "protocols.isis">>, 1) > 0
    IN  containsAnyScore(keyLower, <<"violator", "security">>,
                         config.InterfaceSecurityPenalty)
        + (IF HasSuffix(key, ".interface") /\ ~Contains(key, ".protocols.")
           THEN config.InterfaceEndMatch ELSE 0)
        + (IF Contains(queryLower, "statistics") /\ HasSuffix(key, ".interface.statistics")
           THEN config.InterfaceStatsMatch ELSE 0)
        + (IF Contains(queryLower, "interfaces") /\ HasSuffix(key, ".interface")
           THEN config.InterfacePluralMatch ELSE 0)
        + (IF ~protocolsInQuery /\ protocolsInKey
           THEN config.InterfaceProtocolPenalty ELSE 0)

segmentMatchScoreV2(keyLower, words) ==
    LET thresholds ==
            <<[Count |-> 0, Score |-> config.SegmentExactMatch],
              [Count |-> 1, Score |-> config.SegmentNearMatch],
              [Count |-> 3, Score |-> config.SegmentFarMatch]>>
        wordScore(word) ==
            LET idx == Index(keyLower, word)
                afterMatch == SubSeq(keyLower, idx + Len(word), Len(keyLower))
                dotCount == Count(afterMatch, ".")
            IN  IF idx # 0 THEN countBasedScore(-dotCount, thresholds) ELSE 0
    IN  SumOver([i \in 1..Len(words) |-> wordScore(words[i])], Len(words))

contextScore(queryLower, key, keyLower, words) ==
    containsAllScore(queryLower \o " " \o key, <<"show", ".state.">>, config.ShowStateBonus)
    + (IF Contains(queryLower, "interface")
       THEN interfaceScoreV2(key, keyLower, queryLower) ELSE 0)
    + bgpContextScore(queryLower, key)
    + segmentMatchScoreV2(keyLower, words)
    + suffixMatchScore(key, words)
    + bigramMatchScore(keyLower, words)
    + sequenceMatchScore(queryLower, key)
    + subinterfaceMatchScore(queryLower, key)

specialQueryScore(queryLower, key, extractedFields) ==
    (IF /\ Contains(queryLower, "error")
        /\ Contains(key, "statistics")
        /\ \E i \in 1..Len(extractedFields) : Contains(extractedFields[i], "error")
     THEN config.ErrorFieldBonus ELSE 0)
    + (IF /\ Contains(queryLower, "bandwidth")
          /\ Contains(key, "interface")
          /\ \E i \in 1..Len(extractedFields) :
                \/ Contains(extractedFields[i], "octets")
                \/ Contains(extractedFields[i], "bandwidth")
       THEN config.BandwidthFieldBonus ELSE 0)

penaltyScore(queryLower, key) ==
    (IF /\ Contains(key, "protocols")
        /\ ~Contains(queryLower, "protocol")
        /\ containsAnyScore(queryLower, <<"bgp", "ospf", "isis">>, 1) = 0
     THEN config.ProtocolPenalty ELSE 0)
    + (IF Contains(key, "maintenance") /\ ~Contains(queryLower, "maintenance")
       THEN config.MaintenancePenalty ELSE 0)

pathDepthScore(keyTokens) ==
    LET meaningfulDepth ==
            Cardinality({i \in 1..Len(keyTokens) :
                            i - 1 > 2 /\ keyTokens[i] # "state" /\ keyTokens[i] # "configure"})
    IN  IF Len(keyTokens) = 0 THEN 0
        ELSE IF meaningfulDepth <= 2 THEN config.PathDepthBonus2
        ELSE IF meaningfulDepth <= 3 THEN config.PathDepthBonus3
        ELSE IF meaningfulDepth <= 4 THEN config.PathDepthBonus4
        ELSE -((meaningfulDepth - 4) * config.PathDepthPenaltyFactor * Scale)

\* Engine.scoreEntry; kwOrder is the iteration order of the keyword table that
\* ExtractFields ranges over
scoreEntry(key, entry, query, words, kwOrder) ==
    LET keyTokens  == Tokenize(key)
        textTokens == Tokenize(entry.ReferenceText \o " " \o entry.Text)
        queryLower == ToLower(query)
        keyLower   == ToLower(key)
        extractedFields == ExtractFields(query, key, entry, kwOrder)
    IN  keywordScoreV2(keyTokens, textTokens, words)
        + descriptionScoreV2(queryLower, entry, words)
        + contextScore(queryLower, key, keyLower, words)
        + Len(extractedFields) * config.FieldExtractScore
        + specialQueryScore(queryLower, key, extractedFields)
        + pathDepthScore(keyTokens)
        + penaltyScore(queryLower, key)

(***************************************************************************)
(* Catalogs.  A catalog file holds Table: key -> {ReferenceText, Text};    *)
(* Text is the JSON blob {"Description": ..., "Fields": [...]}.            *)
(***************************************************************************)
\* size of the generated interface catalog whose entries all pass the admission
\* threshold of the exhaustive scan without filling the retention buffer
MidCatalogSize == 12

\* size of the generated interface catalog that overflows the retention buffer
BigCatalogSize == 21

\* iteration orders of the Table map considered: the file order and its reverse,
\* each rotated by 0..MaxRotation places
MaxRotation == 0

Range(seq) == {seq[i] : i \in 1..Len(seq)}

RECURSIVE JoinQuoted(_)
JoinQuoted(list) ==
    IF list = <<>> THEN ""
    ELSE Quote \o Head(list) \o Quote
            \o (IF Len(list) > 1 THEN "," ELSE "") \o JoinQuoted(Tail(list))

EntryText(description, fields) ==
    "{" \o Quote \o "Description" \o Quote \o ":" \o Quote \o description \o Quote
        \o "," \o Quote \o "Fields" \o Quote \o ":[" \o JoinQuoted(fields) \o "]}"

Entry(referenceText, description, fields) ==
    [ReferenceText |-> referenceText, Text |-> EntryText(description, fields)]

\* names of the children of the interface table in the generated catalogs
ChildNames ==
    <<"statistics", "subinterface", "ethernet", "lag", "transceiver", "sflow", "qos",
      "vhost", "linecard", "breakout", "tpid", "uuid", "pipeline", "adapter", "channel",
      "counters", "queue", "scheduler", "policer", "buffer", "mirror", "filter",
      "neighbor", "tunnel">>

SmallSRLKeys ==
    <<".namespace.node.srl.interface",
      ".namespace.node.srl.interface.statistics",
      ".namespace.node.srl.network-instance.protocols.bgp.neighbor",
      ".namespace.node.srl.platform.control.process",
      ".namespace.node.srl.system.lldp">>

SmallSRLTable ==
    (SmallSRLKeys[1] :> Entry("interfaces of the node", "List of interfaces",
                              <<"name", "admin-state", "oper-state", "mtu">>))
    @@ (SmallSRLKeys[2] :> Entry("interface counters", "Interface traffic statistics",
                              <<"in-octets", "out-octets", "in-error-packets">>))
    @@ (SmallSRLKeys[3] :> Entry("bgp peers", "BGP neighbor sessions",
                              <<"peer-address", "session-state">>))
    @@ (SmallSRLKeys[4] :> Entry("processes", "Running processes",
                              <<"name", "memory-usage", "cpu-usage">>))
    @@ (SmallSRLKeys[5] :> [ReferenceText |-> "lldp", Text |-> "not json"])

SmallSROSKeys ==
    <<".namespace.node.sros.state.port",
      ".namespace.node.sros.state.router.interface",
      ".namespace.node.sros.configure.router.interface">>

SmallSROSTable ==
    (SmallSROSKeys[1] :> Entry("ports", "Port state", <<"port-id", "oper-state">>))
    @@ (SmallSROSKeys[2] :> Entry("router interfaces", "Router interface state",
                              <<"interface-name", "oper-state">>))
    @@ (SmallSROSKeys[3] :> Entry("router interfaces", "Router interface configuration",
                              <<"interface-name", "admin-state">>))

\* the interface table followed by n - 1 of its children
InterfaceKeys(n) ==
    [i \in 1..n |->
        IF i = 1 THEN ".namespace.node.srl.interface"
        ELSE ".namespace.node.srl.interface." \o ChildNames[i - 1]]

InterfaceTable(n) ==
    [k \in Range(InterfaceKeys(n)) |->
        IF k = ".namespace.node.srl.interface"
        THEN Entry("interfaces", "List of interfaces", <<"name", "admin-state", "mtu">>)
        ELSE Entry("interface", "Interface detail", <<"name", "oper-state">>)]

CatalogPaths == {"empty.json", "srl.json", "sros.json", "mid.json", "big.json"}

\* the keys of each catalog file, in file order
CatalogKeyLists ==
    [p \in CatalogPaths |->
        CASE p = "empty.json" -> <<>>
          [] p = "srl.json"   -> SmallSRLKeys
          [] p = "sros.json"  -> SmallSROSKeys
          [] p = "mid.json"   -> InterfaceKeys(MidCatalogSize)
          [] p = "big.json"   -> InterfaceKeys(BigCatalogSize)]

\* Table of each catalog file (json.Decode of the file)
CatalogTables ==
    [p \in CatalogPaths |->
        CASE p = "empty.json" -> <<>>
          [] p = "srl.json"   -> SmallSRLTable
          [] p = "sros.json"  -> SmallSROSTable
          [] p = "mid.json"   -> InterfaceTable(MidCatalogSize)
          [] p = "big.json"   -> InterfaceTable(BigCatalogSize)]

\* an enumeration of a Table's keys: the base order of "for key := range Table"
KeyOrderOf(Table) ==
    CatalogKeyLists[CHOOSE p \in CatalogPaths : Range(CatalogKeyLists[p]) = DOMAIN Table]

Reverse(seq) == [i \in 1..Len(seq) |-> seq[Len(seq) + 1 - i]]

Rotate(seq, r) ==
    IF Len(seq) = 0 THEN seq
    ELSE [i \in 1..Len(seq) |-> seq[((i - 1 + r) % Len(seq)) + 1]]

\* iteration orders of a Go map whose keys are listed in base
MapOrders(base) ==
    {Rotate(base, r) : r \in 0..MaxRotation}
        \cup {Rotate(Reverse(base), r) : r \in 0..MaxRotation}

(***************************************************************************)
(* Catalog index (internal/embedding/index.go)                             *)
(***************************************************************************)
RefTokenLimit == 50
TextTokenLimit == 30

\* the tokens BuildInvertedIndex appends one entry's key under, in order: every key
\* token, the reference-text tokens with index 0..RefTokenLimit, the Text tokens
\* with index 0..TextTokenLimit ("if i > limit { break }")
EntryIndexTokens(key, entry) ==
    LET upTo(tokens, limit) ==
            SubSeq(tokens, 1, IF Len(tokens) - 1 > limit THEN limit + 1 ELSE Len(tokens))
    IN  Tokenize(key) \o upTo(Tokenize(entry.ReferenceText), RefTokenLimit)
            \o upTo(Tokenize(entry.Text), TextTokenLimit)

\* the words BuildInvertedIndex files one entry under
EntryIndexWords(key, entry) == Range(EntryIndexTokens(key, entry))

\* db.InvertedIndex[word] after the first loop: each key of order once for every
\* token of its entry that is the word; tokens[key] holds the entry's tokens
RECURSIVE appendedKeys(_, _, _)
appendedKeys(tokens, order, word) ==
    IF order = <<>> THEN <<>>
    ELSE [i \in 1..Cardinality({j \in 1..Len(tokens[Head(order)]) :
                                   tokens[Head(order)][j] = word}) |-> Head(order)]
            \o appendedKeys(tokens, Tail(order), word)

\* the second loop on one word's keys: a key is kept where it is first seen
uniqueKeys(keys) ==
    CHOOSE unique \in
        {[n \in 1..Len(kept) |-> kept[n][2]] :
           kept \in {SelectSeq([i \in 1..Len(keys) |-> <<i, keys[i]>>],
                               LAMBDA p : \A j \in 1..(p[1] - 1) : keys[j] # p[2])}} : TRUE

\* the map the two loops leave: the appended keys of every word, with the
\* duplicates removed by the second loop when deduplicate holds
buildIndex(d, order, deduplicate) ==
    CHOOSE index \in
        {[word \in UNION {Range(tokens[k]) : k \in DOMAIN tokens} |->
             IF deduplicate THEN uniqueKeys(appendedKeys(tokens, order, word))
             ELSE appendedKeys(tokens, order, word)] :
           tokens \in {[k \in DOMAIN d.Table |-> EntryIndexTokens(k, d.Table[k])]}} : TRUE

\* BuildInvertedIndex without the return on a populated index
BuildInvertedIndexRebuild(d, order) ==
    [d EXCEPT !.InvertedIndex = buildIndex(d, order, TRUE)]

\* BuildInvertedIndex without the loop that removes the duplicates
BuildInvertedIndexNoDedup(d, order) ==
    IF DOMAIN d.InvertedIndex # {} THEN d
    ELSE [d EXCEPT !.InvertedIndex = buildIndex(d, order, FALSE)]

\* embedding.BuildInvertedIndex; order is the iteration order of db.Table
BuildInvertedIndex(d, order) ==
    IF DOMAIN d.InvertedIndex # {} THEN d
    ELSE [d EXCEPT !.InvertedIndex = buildIndex(d, order, TRUE)]

\* Loader.Load from the source file: decode, then build the index
Load(path) ==
    BuildInvertedIndex([Table |-> CatalogTables[path], InvertedIndex |-> <<>>],
                       CatalogKeyLists[path])

LoadedDB == [p \in CatalogPaths |-> Load(p)]

(***************************************************************************)
(* Clause extractor: DELTA clause (internal/eql/extractor.go)              *)
(***************************************************************************)
Digits == "0123456789"

IsDigit(c) == \E i \in 1..Len(Digits) : CharAt(Digits, i) = c

DigitValue(c) == (CHOOSE i \in 1..Len(Digits) : CharAt(Digits, i) = c) - 1

\* strconv.Atoi of a run of decimal digits (the runs met here fit an int)
RECURSIVE Atoi(_)
Atoi(t) ==
    IF t = "" THEN 0
    ELSE Atoi(SubSeq(t, 1, Len(t) - 1)) * 10 + DigitValue(CharAt(t, Len(t)))

\* the length of the run of digits of s that starts at position i
DigitRun(s, i) ==
    CHOOSE n \in 0..(Len(s) + 1) :
        /\ \A j \in i..(i + n - 1) : j <= Len(s) /\ IsDigit(CharAt(s, j))
        /\ (i + n > Len(s) \/ ~IsDigit(CharAt(s, i + n)))

\* FindStringSubmatch of `every (\d+) <unit>s?`: the first capture group of the
\* leftmost match, "" when the pattern does not match
everyMatch(lower, unit) ==
    LET lead == "every "
        matchesAt(i) ==
            /\ i + Len(lead) - 1 <= Len(lower)
            /\ SubSeq(lower, i, i + Len(lead) - 1) = lead
            /\ DigitRun(lower, i + Len(lead)) > 0
            /\ HasPrefix(SubSeq(lower, i + Len(lead) + DigitRun(lower, i + Len(lead)),
                                Len(lower)), " " \o unit)
        hits == {i \in 1..Len(lower) : matchesAt(i)}
        first == CHOOSE i \in hits : \A j \in hits : i <= j
    IN  IF hits = {} THEN ""
        ELSE SubSeq(lower, first + Len(lead),
                    first + Len(lead) + DigitRun(lower, first + Len(lead)) - 1)

RealTimeIntervalSeconds == 1

\* the keys of ExtractDelta's patterns map, as the source lists them
DeltaUnits == <<"second", "millisecond", "realtime">>

NoDelta == [isNil |-> TRUE, Unit |-> "", Value |-> 0]

\* the loop "for unit, pattern := range patterns"; the realtime pattern has no
\* capture group, so its match never has more than one element
RECURSIVE ExtractDeltaLoop(_, _, _)
ExtractDeltaLoop(lower, unitOrder, i) ==
    IF i > Len(unitOrder) THEN NoDelta
    ELSE LET unit    == unitOrder[i]
             capture == IF unit = "realtime" THEN "" ELSE everyMatch(lower, unit)
         IN  IF capture # "" /\ Atoi(capture) > 0
             THEN [isNil |-> FALSE, Unit |-> unit \o "s", Value |-> Atoi(capture)]
             ELSE ExtractDeltaLoop(lower, unitOrder, i + 1)

\* eql.ExtractDelta; unitOrder is the iteration order of the patterns map
ExtractDelta(query, unitOrder) ==
    LET lower == ToLower(query)
        found == ExtractDeltaLoop(lower, unitOrder, 1)
    IN  IF ~found.isNil THEN found
        ELSE IF Contains(lower, "real") /\ Contains(lower, "time")
        THEN [isNil |-> FALSE, Unit |-> "seconds", Value |-> RealTimeIntervalSeconds]
        ELSE NoDelta

(***************************************************************************)
(* Clause extractor: LIMIT clause (internal/eql/extractor.go)              *)
(***************************************************************************)
MaxLimitValue == 1000
DefaultTopLimit == 10

\* FindStringSubmatch of `<lead>(\d+)<trail>`: the capture group of the leftmost
\* match, "" when the pattern does not match
FindStringSubmatch(lower, lead, trail) ==
    LET matchesAt(i) ==
            /\ i + Len(lead) - 1 <= Len(lower)
            /\ SubSeq(lower, i, i + Len(lead) - 1) = lead
            /\ DigitRun(lower, i + Len(lead)) > 0
            /\ HasPrefix(SubSeq(lower, i + Len(lead) + DigitRun(lower, i + Len(lead)),
                                Len(lower)), trail)
        hits == {i \in 1..Len(lower) : matchesAt(i)}
        first == CHOOSE i \in hits : \A j \in hits : i <= j
    IN  IF hits = {} THEN ""
        ELSE SubSeq(lower, first + Len(lead),
                    first + Len(lead) + DigitRun(lower, first + Len(lead)) - 1)

\* the digits of t without its leading zeros
RECURSIVE TrimLeadingZeros(_)
TrimLeadingZeros(t) ==
    IF Len(t) > 0 /\ CharAt(t, 1) = "0" THEN TrimLeadingZeros(SubSeq(t, 2, Len(t))) ELSE t

\* "limit, err := strconv.Atoi(capture); err == nil && limit > 0 && limit <=
\* MaxLimitValue": a run of more than 4 significant digits is out of range, or
\* does not fit an int
LimitInRange(capture) ==
    /\ capture # ""
    /\ Len(TrimLeadingZeros(capture)) <= 4
    /\ Atoi(capture) > 0
    /\ Atoi(capture) <= MaxLimitValue

\* ExtractLimit's patterns, in order: <<lead, trail>> around the (\d+) group
LimitPatterns == << <<"top ", "">>, <<"first ", "">>, <<"limit ", "">>, <<"", " results">> >>

\* the loop "for _, pattern := range patterns": 0 when it returns nothing
RECURSIVE ExtractLimitLoop(_, _)
ExtractLimitLoop(lower, i) ==
    IF i > Len(LimitPatterns) THEN 0
    ELSE IF LimitInRange(FindStringSubmatch(lower, LimitPatterns[i][1], LimitPatterns[i][2]))
    THEN Atoi(FindStringSubmatch(lower, LimitPatterns[i][1], LimitPatterns[i][2]))
    ELSE ExtractLimitLoop(lower, i + 1)

\* eql.ExtractLimit
ExtractLimit(query) ==
    CHOOSE out \in
        {IF found > 0 THEN found
         ELSE IF Contains(ToLower(query), "top") \/ Contains(ToLower(query), "highest")
         THEN DefaultTopLimit
         ELSE 0 : found \in {ExtractLimitLoop(ToLower(query), 1)}} : TRUE

(***************************************************************************)
(* Clause extractor: WHERE clause (internal/eql/extractor.go,              *)
(* internal/eql/field_mappings.go)                                         *)
(***************************************************************************)
\* strings.TrimSuffix of "?", "!", "." and ",", once each and in this order
cleanPunctuation(word) ==
    LET TrimSuffix(s, suffix) ==
            IF HasSuffix(s, suffix) THEN SubSeq(s, 1, Len(s) - Len(suffix)) ELSE s
    IN  TrimSuffix(TrimSuffix(TrimSuffix(TrimSuffix(word, "?"), "!"), "."), ",")

\* the words isSkipWord accepts
skipWords ==
    {"nodes", "node", "my", "the", "bgp", "ospf", "isis", "mpls", "interface",
     "interfaces", "router", "system", "all", "any", "errors", "error", "drops",
     "drop", "statistics", "stats", "status", "configuration", "config", "state",
     "up", "down", "active", "inactive"}

\* the names the word at position i adds: the word itself when checkNodePattern
\* accepts it, then the next word when checkPrepositionPattern accepts it
nodeNamesAt(words, i) ==
    LET word == cleanPunctuation(words[i])
        next == IF i < Len(words) THEN cleanPunctuation(words[i + 1]) ELSE ""
        isGenericNodeReference == word \in {"nodes", "node", "my"}
        checkNodePattern ==
            /\ HasPrefix(word, "leaf") \/ HasPrefix(word, "spine")
            /\ Len(word) > 4
            /\ IsDigit(CharAt(word, Len(word)))
        checkPrepositionPattern ==
            /\ word \in {"on", "for", "from"}
            /\ i < Len(words)
            /\ next \notin skipWords
            /\ Len(next) > 1
    IN  IF isGenericNodeReference THEN <<>>
        ELSE (IF checkNodePattern THEN <<word>> ELSE <<>>)
                \o (IF checkPrepositionPattern THEN <<next>> ELSE <<>>)

\* the loop over the words, then the removal of duplicates
RECURSIVE nodeNamesFrom(_, _, _)
nodeNamesFrom(words, i, names) ==
    IF i > Len(words) THEN names
    ELSE nodeNamesFrom(words, i + 1, AppendAllUnique(names, nodeNamesAt(words, i)))

\* ExtractNodeNames that keeps the first name only
ExtractNodeNamesFirst(query) ==
    LET names == nodeNamesFrom(Fields(ToLower(query)), 1, <<>>)
    IN  IF names = <<>> THEN <<>> ELSE <<names[1]>>

\* eql.ExtractNodeNames
ExtractNodeNames(query) == nodeNamesFrom(Fields(ToLower(query)), 1, <<>>)

\* fmt.Sprintf("%q", s) for printable ASCII: quotes and backslashes are escaped
GoQuote(s) ==
    Quote \o Join([i \in 1..Len(s) |->
                      IF CharAt(s, i) \in {Quote, "\\"} THEN "\\" \o CharAt(s, i)
                      ELSE CharAt(s, i)], "") \o Quote

\* eql.GetFieldMappings; no mapping sets ValidTables
FieldMappings ==
    LET M(patterns, field, value, keywords) ==
            [Patterns |-> patterns, FieldName |-> field, Value |-> value,
             ValidTables |-> <<>>, RequiredTableKeywords |-> keywords]
    IN  <<M(<<"up", "operational", "active">>, "oper-state", "up", <<"interface">>),
          M(<<"down", "failed", "inactive">>, "oper-state", "down", <<"interface">>),
          M(<<"enabled", "enable">>, "admin-state", "enable", <<"interface">>),
          M(<<"disabled", "disable">>, "admin-state", "disable", <<"interface">>),
          M(<<"400g", "400gbps", "400 gbps">>, "port-speed", "400G", <<"ethernet", "interface">>),
          M(<<"100g", "100gbps", "100 gbps">>, "port-speed", "100G", <<"ethernet", "interface">>),
          M(<<"50g", "50gbps", "50 gbps">>, "port-speed", "50G", <<"ethernet", "interface">>),
          M(<<"40g", "40gbps", "40 gbps">>, "port-speed", "40G", <<"ethernet", "interface">>),
          M(<<"25g", "25gbps", "25 gbps">>, "port-speed", "25G", <<"ethernet", "interface">>),
          M(<<"10g", "10gbps", "10 gbps">>, "port-speed", "10G", <<"ethernet", "interface">>),
          M(<<"1g", "1gbps", "1 gbps", "gigabit">>, "port-speed", "1G", <<"ethernet", "interface">>),
          M(<<"fiber", "optical", "sfp", "qsfp">>, "physical-medium", "fiber", <<"ethernet", "interface">>),
          M(<<"copper", "dac", "electrical">>, "physical-medium", "copper", <<"ethernet", "interface">>),
          M(<<"copper", "electrical">>, "ethernet-pmd", "~ \"BASE-T\"", <<"transceiver", "ethernet">>),
          M(<<"fiber", "optical">>, "ethernet-pmd", "!~ \"BASE-T\"", <<"transceiver", "ethernet">>),
          M(<<"vlan tagging enabled", "vlan-tagging", "tagged">>, "vlan-tagging", "true", <<"interface">>),
          M(<<"vlan tagging disabled", "no vlan", "untagged">>, "vlan-tagging", "false", <<"interface">>),
          M(<<"qsfp28">>, "form-factor", "QSFP28", <<"transceiver">>),
          M(<<"qsfp+">>, "form-factor", "QSFP+", <<"transceiver">>),
          M(<<"qsfp">>, "form-factor", "QSFP", <<"transceiver">>),
          M(<<"sfp+">>, "form-factor", "SFP+", <<"transceiver">>),
          M(<<"sfp">>, "form-factor", "SFP", <<"transceiver">>),
          M(<<"cfp">>, "form-factor", "CFP", <<"transceiver">>),
          M(<<"xfp">>, "form-factor", "XFP", <<"transceiver">>),
          M(<<"lag members", "lag member">>, "aggregate-id", "!= null", <<"ethernet">>),
          M(<<"lacp">>, "lacp-mode", "active", <<"lag">>),
          M(<<"static lag">>, "lag-type", "static", <<"lag">>),
          M(<<"dynamic lag">>, "lag-type", "lacp", <<"lag">>),
          M(<<"established">>, "session-state", "established", <<"bgp", "neighbor">>),
          M(<<"idle">>, "session-state", "idle", <<"bgp", "neighbor">>),
          M(<<"active">>, "session-state", "active", <<"bgp", "neighbor">>),
          M(<<"connect">>, "session-state", "connect", <<"bgp", "neighbor">>),
          M(<<"opensent">>, "session-state", "opensent", <<"bgp", "neighbor">>),
          M(<<"openconfirm">>, "session-state", "openconfirm", <<"bgp", "neighbor">>),
          M(<<"ebgp", "external">>, "peer-type", "external", <<"bgp", "neighbor">>),
          M(<<"ibgp", "internal">>, "peer-type", "internal", <<"bgp", "neighbor">>),
          M(<<"lc connector", "lc">>, "connector-type", "LC", <<"transceiver">>),
          M(<<"mpo", "mtp">>, "connector-type", "MPO", <<"transceiver">>)>>

\* eql.GetRegexMappings; the ValuePattern `<word>\s+(?:<optional>\s+)?(\d+)`
\* (`<word>\s*(\d+)` when minSpaces is 0) is kept as its parts
RegexMappings ==
    <<[Patterns |-> <<"vlan">>, FieldName |-> "vlan-id", ValidTables |-> <<>>,
       RequiredTableKeywords |-> <<"vlan">>,
       word |-> "vlan", minSpaces |-> 1, optional |-> "id"],
      [Patterns |-> <<"lag">>, FieldName |-> "aggregate-id", ValidTables |-> <<>>,
       RequiredTableKeywords |-> <<"ethernet">>,
       word |-> "lag", minSpaces |-> 0, optional |-> ""],
      [Patterns |-> <<"as ", "as number">>, FieldName |-> "peer-as", ValidTables |-> <<>>,
       RequiredTableKeywords |-> <<"bgp">>,
       word |-> "as", minSpaces |-> 1, optional |-> "number"],
      [Patterns |-> <<"mtu">>, FieldName |-> "mtu", ValidTables |-> <<>>,
       RequiredTableKeywords |-> <<"interface">>,
       word |-> "mtu", minSpaces |-> 1, optional |-> ""]>>

\* eql.isValidForTable
isValidForTable(mapping, tablePath) ==
    LET tablePathLower == ToLower(tablePath)
        holds(list) == \A i \in 1..Len(list) : Contains(tablePathLower, ToLower(list[i]))
        any(list)   == \E i \in 1..Len(list) : Contains(tablePathLower, ToLower(list[i]))
    IN  \/ Len(mapping.ValidTables) = 0 /\ Len(mapping.RequiredTableKeywords) = 0
        \/ any(mapping.ValidTables)
        \/ Len(mapping.RequiredTableKeywords) > 0 /\ holds(mapping.RequiredTableKeywords)

\* the length of the run of white space of s that starts at position i
SpaceRun(s, i) ==
    CHOOSE n \in 0..(Len(s) + 1) :
        /\ \A j \in i..(i + n - 1) : j <= Len(s) /\ IsSpace(CharAt(s, j))
        /\ (i + n > Len(s) \/ ~IsSpace(CharAt(s, i + n)))

\* ValuePattern.FindStringSubmatch(lower)[1]: the digits captured by the leftmost
\* match of the mapping's pattern, "" when it does not match
valueMatch(lower, mapping) ==
    LET rest(p)   == SubSeq(lower, p, Len(lower))
        skip(p)   == p + SpaceRun(lower, p)
        afterWord(i) == i + Len(mapping.word)
        \* where the digits start in a match that begins at i; 0 when there is none
        digitsAt(i) ==
            IF ~(HasPrefix(rest(i), mapping.word)
                    /\ SpaceRun(lower, afterWord(i)) >= mapping.minSpaces)
            THEN 0
            ELSE IF /\ mapping.optional # ""
                    /\ HasPrefix(rest(skip(afterWord(i))), mapping.optional)
                    /\ SpaceRun(lower, skip(afterWord(i)) + Len(mapping.optional)) >= 1
                    /\ DigitRun(lower, skip(skip(afterWord(i)) + Len(mapping.optional))) > 0
            THEN skip(skip(afterWord(i)) + Len(mapping.optional))
            ELSE IF DigitRun(lower, skip(afterWord(i))) > 0
            THEN skip(afterWord(i))
            ELSE 0
        hits  == {i \in 1..Len(lower) : digitsAt(i) > 0}
        first == CHOOSE i \in hits : \A j \in hits : i <= j
    IN  IF hits = {} THEN ""
        ELSE SubSeq(lower, digitsAt(first), digitsAt(first) + DigitRun(lower, digitsAt(first)) - 1)

\* the operators of extractNumericConditions' pattern, in the order of its alternation
numericOperators ==
    <<"greater than", "less than", "equal to", "!=", ">=", "<=", ">", "<", "=">>

\* eql.normalizeOperator
normalizeOperator(op) ==
    CASE op = "greater than" -> ">"
      [] op = "less than"    -> "<"
      [] op = "equal to"     -> "="
      [] OTHER               -> op

\* the match of `(\w+)\s*(<operator>)\s*(\d+)` that starts at position s: \w+ takes
\* the longest run that lets the rest match, the alternation its first operator
numericMatchAt(lower, s) ==
    LET rest(p) == SubSeq(lower, p, Len(lower))
        skip(p) == p + SpaceRun(lower, p)
        isWordChar(c) ==
            c = "_" \/ IsDigit(c) \/ c \in UpperSet
                \/ \E i \in 1..Len(LowerLetters) : CharAt(LowerLetters, i) = c
        operatorsAt(p) ==
            {k \in 1..Len(numericOperators) :
                /\ HasPrefix(rest(p), numericOperators[k])
                /\ DigitRun(lower, skip(p + Len(numericOperators[k]))) > 0}
        ends == {e \in s..Len(lower) :
                    /\ \A j \in s..e : isWordChar(CharAt(lower, j))
                    /\ operatorsAt(skip(e + 1)) # {}}
    IN  IF ends = {} THEN [ok |-> FALSE, field |-> "", op |-> "", value |-> "", next |-> s]
        ELSE LET e == CHOOSE x \in ends : \A j \in ends : x >= j
                 k == CHOOSE x \in operatorsAt(skip(e + 1)) :
                         \A j \in operatorsAt(skip(e + 1)) : x <= j
                 d == skip(skip(e + 1) + Len(numericOperators[k]))
             IN  [ok |-> TRUE,
                  field |-> SubSeq(lower, s, e),
                  op |-> numericOperators[k],
                  value |-> SubSeq(lower, d, d + DigitRun(lower, d) - 1),
                  next |-> d + DigitRun(lower, d)]

\* eql.extractNumericConditions: the assignments of FindAllStringSubmatch's
\* matches from position pos on, in order
RECURSIVE extractNumericConditions(_, _)
extractNumericConditions(lower, pos) ==
    LET starts == {s \in pos..Len(lower) : numericMatchAt(lower, s).ok}
    IN  IF starts = {} THEN <<>>
        ELSE CHOOSE out \in
                 {<< <<m.field, normalizeOperator(m.op) \o " " \o m.value>> >>
                      \o extractNumericConditions(lower, m.next) :
                    m \in {numericMatchAt(lower, CHOOSE s \in starts : \A j \in starts : s <= j)}} :
                 TRUE

\* "conditions[field] = value" for each <<field, value>> of assignments, in order:
\* fields lists the keys in the order they were first set
RECURSIVE setConditions(_, _)
setConditions(conditions, assignments) ==
    IF assignments = <<>> THEN conditions
    ELSE setConditions(
            [fields |-> AppendUnique(conditions.fields, Head(assignments)[1]),
             value  |-> [f \in DOMAIN conditions.value \cup {Head(assignments)[1]} |->
                            IF f = Head(assignments)[1] THEN Head(assignments)[2]
                            ELSE conditions.value[f]]],
            Tail(assignments))

\* the mapping is valid for the table and one of its patterns is in the query
mappingMatches(mapping, lower, tablePath) ==
    /\ isValidForTable(mapping, tablePath)
    /\ \E i \in 1..Len(mapping.Patterns) : Contains(lower, ToLower(mapping.Patterns[i]))

\* eql.applyFieldMappings: its assignments <<field, value>>, in table order
applyFieldMappings(lower, tablePath) ==
    CHOOSE out \in
        {[i \in 1..Len(hits) |-> <<hits[i].FieldName, hits[i].Value>>] :
           hits \in {SelectSeq(FieldMappings,
                               LAMBDA m : mappingMatches(m, lower, tablePath))}} : TRUE

\* eql.applyRegexMappings: its assignments, in table order
applyRegexMappings(lower, tablePath) ==
    CHOOSE out \in
        {[i \in 1..Len(hits) |-> <<hits[i].FieldName, valueMatch(lower, hits[i])>>] :
           hits \in {SelectSeq(RegexMappings,
                               LAMBDA m : /\ mappingMatches(m, lower, tablePath)
                                          /\ valueMatch(lower, m) # "")}} : TRUE

\* eql.applyConditionalMappings with the one mapping of GetConditionalMappings
applyConditionalMappings(lower, tablePath) ==
    IF /\ Contains(ToLower(lower), "down")
       /\ Contains(tablePath, "bgp")
       /\ Contains(tablePath, "neighbor")
       /\ ~Contains(ToLower(lower), "established")
    THEN << <<"session-state", "!= \"established\"">> >>
    ELSE <<>>

\* the assignments of the four stages, in the order the stages are given
stageAssignments(lower, tablePath, stages) ==
    LET stage(name) ==
            CASE name = "direct"      -> applyFieldMappings(lower, tablePath)
              [] name = "regex"       -> applyRegexMappings(lower, tablePath)
              [] name = "conditional" -> applyConditionalMappings(lower, tablePath)
              [] name = "numeric"     -> extractNumericConditions(lower, 1)
    IN  stage(stages[1]) \o stage(stages[2]) \o stage(stages[3]) \o stage(stages[4])

\* ExtractConditions with the direct mappings applied last
ExtractConditionsDirectLast(query, tablePath) ==
    setConditions([fields |-> <<>>, value |-> <<>>],
                  stageAssignments(ToLower(query), tablePath,
                                   <<"regex", "conditional", "numeric", "direct">>))

\* eql.ExtractConditions: applyFieldMappings, applyRegexMappings,
\* applyConditionalMappings and extractNumericConditions write to one map
ExtractConditions(query, tablePath) ==
    setConditions([fields |-> <<>>, value |-> <<>>],
                  stageAssignments(ToLower(query), tablePath,
                                   <<"direct", "regex", "conditional", "numeric">>))

\* the node-name part of the WHERE clause: no element, or one
nodeParts(tablePath, query) ==
    LET nodeNames == ExtractNodeNames(query)
    IN  IF Len(nodeNames) > 0 /\ Contains(tablePath, ".namespace.node.")
        THEN IF Len(nodeNames) = 1
             THEN <<".namespace.node.name = " \o GoQuote(nodeNames[1])>>
             ELSE <<".namespace.node.name in ["
                      \o Join([i \in 1..Len(nodeNames) |-> GoQuote(nodeNames[i])], ", ")
                      \o "]">>
        ELSE <<>>

\* the part of one condition
conditionPart(field, value) ==
    IF HasPrefix(value, ">") \/ HasPrefix(value, "<") \/ HasPrefix(value, "=")
            \/ HasPrefix(value, "!")
    THEN field \o " " \o value
    ELSE field \o " = " \o GoQuote(value)

\* eql.GenerateWhereClause; order is the order in which "for field, value :=
\* range conditions" visits the fields
GenerateWhereClause(tablePath, query, order) ==
    LET conditions == ExtractConditions(query, tablePath)
    IN  Join(nodeParts(tablePath, query)
                \o [i \in 1..Len(order) |-> conditionPart(order[i], conditions.value[order[i]])],
             " and ")

\* GenerateWhereClauseWithValidation without the check of availableFields
GenerateWhereClauseUnvalidated(tablePath, query, availableFields, order) ==
    GenerateWhereClause(tablePath, query, order)

\* eql.GenerateWhereClauseWithValidation
GenerateWhereClauseWithValidation(tablePath, query, availableFields, order) ==
    LET conditions == ExtractConditions(query, tablePath)
        fieldExists(field) == SliceContains(availableFields, field)
    IN  Join(nodeParts(tablePath, query)
                \o [i \in 1..Len(SelectSeq(order, fieldExists)) |->
                       conditionPart(SelectSeq(order, fieldExists)[i],
                                     conditions.value[SelectSeq(order, fieldExists)[i]])],
             " and ")

(***************************************************************************)
(* Clause extractor: ORDER BY clause (internal/eql/extractor.go)           *)
(***************************************************************************)
\* the function createFieldFinder returns: the first field, in declaration order,
\* whose lowered name contains the first keyword that any field contains
findSortField(availableFields, keywords) ==
    LET inField(k, i) == Contains(ToLower(availableFields[i]), keywords[k])
        hits == {k \in 1..Len(keywords) : \E i \in 1..Len(availableFields) : inField(k, i)}
        first == CHOOSE k \in hits : \A j \in hits : k <= j
    IN  IF hits = {} THEN ""
        ELSE availableFields[CHOOSE i \in 1..Len(availableFields) :
                                /\ inField(first, i)
                                /\ \A j \in 1..(i - 1) : ~inField(first, j)]

\* extractDefaultSort with every clause already appended
extractDefaultSortAlways(lower, availableFields, orderBy) ==
    IF Contains(lower, "sort") /\ findSortField(availableFields, <<"name">>) # ""
    THEN Append(orderBy, [Field |-> findSortField(availableFields, <<"name">>),
                          Direction |-> "ascending", Algorithm |-> "natural"])
    ELSE orderBy

\* eql.extractDefaultSort
extractDefaultSort(lower, availableFields, orderBy) ==
    IF /\ Len(orderBy) = 0
       /\ Contains(lower, "sort")
       /\ findSortField(availableFields, <<"name">>) # ""
    THEN Append(orderBy, [Field |-> findSortField(availableFields, <<"name">>),
                          Direction |-> "ascending", Algorithm |-> "natural"])
    ELSE orderBy

\* eql.ExtractOrderBy
ExtractOrderBy(query, tablePath, embeddingEntry) ==
    LET lower == ToLower(query)
        availableFields == ParseEmbeddingText(embeddingEntry.Text)
        memoryKeywords == <<"memory-usage", "memory-utilization", "utilization", "used">>
        clause(keywords, direction) ==
            IF findSortField(availableFields, keywords) # ""
            THEN <<[Field |-> findSortField(availableFields, keywords),
                    Direction |-> direction, Algorithm |-> ""]>>
            ELSE <<>>
        hasDescendingKeywords ==
            Contains(lower, "top") \/ Contains(lower, "highest") \/ Contains(lower, "most")
        hasAscendingKeywords == Contains(lower, "lowest") \/ Contains(lower, "least")
        getDescendingSortConfig ==
            CASE Contains(lower, "memory")  -> memoryKeywords
              [] Contains(lower, "cpu")     -> <<"cpu-utilization", "cpu-usage", "cpu">>
              [] Contains(lower, "traffic") -> <<"in-octets", "out-octets", "octets">>
              [] OTHER                      -> <<>>
        extractDescendingSort ==
            IF hasDescendingKeywords /\ getDescendingSortConfig # <<>>
            THEN clause(getDescendingSortConfig, "descending") ELSE <<>>
        extractAscendingSort ==
            IF hasAscendingKeywords /\ Contains(lower, "memory")
            THEN clause(memoryKeywords, "ascending") ELSE <<>>
        extractTimeSort ==
            IF /\ Contains(tablePath, "alarm")
               /\ Contains(lower, "recent") \/ Contains(lower, "latest")
            THEN clause(<<"time-created", "last-change", "timestamp">>, "descending")
            ELSE <<>>
    IN  extractDefaultSort(lower, availableFields,
                           extractDescendingSort \o extractAscendingSort \o extractTimeSort)

(***************************************************************************)
(* Search orchestrator (Engine.Search, Engine.IndexedSearch)               *)
(***************************************************************************)
\* internal/constants
MinScoreThreshold == 5
DefaultScoreThreshold == 10
SROSScoreThreshold == 8
BaseIndexMatchScore == 10
AllWordsMatchBonus == 20
AlarmWordScore == 10
AlarmSeverityScore == 5
MaxSearchResults == 10
MaxCandidates == 20

\* the query strings the callers pass
Queries ==
    {"", "-_.", "vxlan tunnels", "interface", "Show interface statistics",
     "interface alarms", "critical alarms", "interface mtu state",
     "sros interfaces", "bgp neighbor state"}

\* words := ExpandSynonyms(Tokenize(query)), for each of the queries
QueryWords == [q \in Queries |-> ExpandSynonyms(Tokenize(q))]

\* iteration orders of the fieldKeywords map: the source order and its reverse
KeywordOrders == {FieldKeywordList, Reverse(FieldKeywordList)}

\* every (key, entry) of a catalog file
CatalogEntries ==
    UNION {{<<k, CatalogTables[p][k]>> : k \in DOMAIN CatalogTables[p]} : p \in CatalogPaths}

alarmPath == ".namespace.alarms.v1.alarm"

alarmEntry ==
    [ReferenceText |-> "",
     Text |-> EntryText("Active alarms in the system",
                        <<"severity", "text", "time-created", "acknowledged">>)]

\* scoreEntry tabulated over the arguments the searches pass
scoreTable ==
    [a \in {<<ke[1], ke[2], q, kw>> : ke \in CatalogEntries, q \in Queries, kw \in KeywordOrders} |->
        scoreEntry(a[1], a[2], a[3], QueryWords[a[3]], a[4])]

\* e.scoreEntry(key, entry, query, words) as the search paths call it: read from
\* the table when the table holds the call
entryScore(key, entry, query, words, kwOrder) ==
    CHOOSE score \in
        {IF <<key, entry, query, kwOrder>> \in DOMAIN t /\ words = QueryWords[query]
         THEN t[<<key, entry, query, kwOrder>>]
         ELSE scoreEntry(key, entry, query, words, kwOrder) : t \in {scoreTable}} : TRUE

\* sort.Slice(list, score descending).  sort.Slice is not stable: of the orders
\* it may leave elements of equal score in, this is the one that keeps them as
\* they were (what its insertion sort does for the lists of up to 12 elements)
SortByScore(list, scoreField) ==
    CHOOSE sorted \in
        {LET n == Len(l)
             sc == [i \in 1..n |-> l[i][scoreField]] \o <<>>
             before(i) == Cardinality({j \in 1..n :
                            sc[j] > sc[i] \/ (sc[j] = sc[i] /\ j < i)})
         IN  [pos \in 1..n |-> l[CHOOSE i \in 1..n : before(i) = pos - 1]] \o <<>>
         : l \in {list \o <<>>}} : TRUE

calculateAlarmScore(words) ==
    SumOver([i \in 1..Len(words) |->
                (IF words[i] \in {"alarm", "alarms"} THEN AlarmWordScore * Scale ELSE 0)
                + (IF words[i] \in {"critical", "major", "minor"}
                   THEN AlarmSeverityScore * Scale ELSE 0)],
            Len(words))

\* checkAlarmQuery: the results list holding the alarm result, or nothing
checkAlarmQuery(query, words) ==
    IF calculateAlarmScore(words) = 0 THEN <<>>
    ELSE <<[Key |-> alarmPath, Score |-> calculateAlarmScore(words)]>>

\* a faulty updateTopCandidates: a full list is not sorted again after its last
\* element is replaced
updateTopCandidatesUnsorted(st, newCand) ==
    IF Len(st.candidates) < MaxCandidates
    THEN LET appended == Append(st.candidates, newCand)
         IN  IF Len(appended) = MaxCandidates
             THEN LET sorted == SortByScore(appended, "score")
                  IN  [candidates |-> sorted, minScore |-> sorted[MaxCandidates].score]
             ELSE [candidates |-> appended, minScore |-> st.minScore]
    ELSE IF newCand.score > st.minScore
         THEN [candidates |-> [st.candidates EXCEPT ![MaxCandidates] = newCand],
               minScore |-> newCand.score]
         ELSE st

\* the body of findTopCandidates' loop (collectTopCandidates/updateTopCandidates):
\* st is [candidates, minScore]
updateTopCandidates(st, newCand) ==
    IF Len(st.candidates) < MaxCandidates
    THEN LET appended == Append(st.candidates, newCand)
         IN  IF Len(appended) = MaxCandidates
             THEN LET sorted == SortByScore(appended, "score")
                  IN  [candidates |-> sorted, minScore |-> sorted[MaxCandidates].score]
             ELSE [candidates |-> appended, minScore |-> st.minScore]
    ELSE IF newCand.score > st.minScore
         THEN LET replaced == [st.candidates EXCEPT ![MaxCandidates] = newCand]
                  sorted   == SortByScore(replaced, "score")
              IN  [candidates |-> sorted, minScore |-> sorted[MaxCandidates].score]
         ELSE st

\* one pass of the loop "for key, entry := range e.db.Table"
scanEntry(d, query, words, kwOrder, st, key) ==
    CHOOSE next \in
        {IF score > MinScoreThreshold * Scale
         THEN updateTopCandidates(st, [key |-> key, score |-> score])
         ELSE st : score \in {entryScore(key, d.Table[key], query, words, kwOrder)}} : TRUE

\* the loop; each pass is evaluated once, and its value is handed to the next
RECURSIVE findTopCandidatesFrom(_, _, _, _, _, _, _)
findTopCandidatesFrom(d, query, words, order, kwOrder, i, st) ==
    IF i > Len(order) THEN st.candidates
    ELSE CHOOSE out \in
            {findTopCandidatesFrom(d, query, words, order, kwOrder, i + 1, next) :
                next \in {scanEntry(d, query, words, kwOrder, st, order[i])}} : TRUE

\* findTopCandidates; order is the iteration order of e.db.Table
findTopCandidates(d, query, words, order, kwOrder) ==
    findTopCandidatesFrom(d, query, words, order, kwOrder, 1,
        [candidates |-> <<>>, minScore |-> MinScoreThreshold * Scale])

\* createSearchResult, as far as ranking reads it
createSearchResult(cand) == [Key |-> cand.key, Score |-> cand.score]

\* a faulty conversion: the catalog candidates are placed ahead of the results
\* collected so far, and the list is then cut to MaxSearchResults
convertCandidatesAhead(candidates, res) ==
    LET all == [i \in 1..Len(candidates) |-> createSearchResult(candidates[i])] \o res
    IN  SubSeq(all, 1, IF Len(all) < MaxSearchResults THEN Len(all) ELSE MaxSearchResults)

\* convertCandidatesToResults: candidates are appended, in order, while the list
\* is shorter than MaxSearchResults
convertCandidatesToResults(candidates, res) ==
    LET room == IF Len(res) >= MaxSearchResults THEN 0 ELSE MaxSearchResults - Len(res)
        n    == IF Len(candidates) < room THEN Len(candidates) ELSE room
    IN  res \o [i \in 1..n |-> createSearchResult(candidates[i])]

\* a faulty Search: the final sort.Slice is left out
SearchWithoutFinalSort(d, query, order, kwOrder) ==
    CHOOSE unsorted \in
        {convertCandidatesToResults(findTopCandidates(d, query, words, order, kwOrder),
                                    checkAlarmQuery(query, words)) :
            words \in {ExpandSynonyms(Tokenize(query))}} : TRUE

\* Engine.Search; words and candidates are computed once, as in the source
Search(d, query, order, kwOrder) ==
    CHOOSE sorted \in
        {SortByScore(convertCandidatesToResults(candidates, checkAlarmQuery(query, words)),
                     "Score") :
            <<words, candidates>> \in
                {<<w, findTopCandidates(d, query, w, order, kwOrder)>> :
                    w \in {ExpandSynonyms(Tokenize(query))}}} : TRUE

detectSROSDatabase(d) == \E key \in DOMAIN d.Table : Contains(key, ".sros.")

\* download.DetectPlatformFromQuery returns SROS
DetectPlatformFromQuerySROS(query) ==
    \E keyword \in {"sros", "sr os", "service router", "7750", "7450", "7250", "7950"} :
        Contains(ToLower(query), keyword)

shouldAddInterfaceCandidates(words, query, isSROSDB) ==
    /\ isSROSDB \/ DetectPlatformFromQuerySROS(query)
    /\ \E i \in 1..Len(words) : words[i] \in {"interface", "interfaces"}

RECURSIVE SumOverSet(_, _)
SumOverSet(S, f) ==
    IF S = {} THEN 0
    ELSE LET x == CHOOSE y \in S : TRUE IN f[x] + SumOverSet(S \ {x}, f)

Occurrences(list, x) == Cardinality({i \in 1..Len(list) : list[i] = x})

\* e.addIndexedCandidates: what it adds to candidateKeys[key]
addIndexedCandidates(d, words, key) ==
    SumOver([i \in 1..Len(words) |->
                IF words[i] \in DOMAIN d.InvertedIndex
                THEN Occurrences(d.InvertedIndex[words[i]], key) ELSE 0], Len(words))

\* getCandidateKeys: candidateKeys[key], 0 for a key the map does not hold
candidateCount(d, words, query, key) ==
    addIndexedCandidates(d, words, key)
    + (IF shouldAddInterfaceCandidates(words, query, detectSROSDatabase(d))
       THEN SumOverSet({w \in DOMAIN d.InvertedIndex : Contains(w, "interface")},
                       [w \in DOMAIN d.InvertedIndex |->
                            Occurrences(d.InvertedIndex[w], key)])
       ELSE 0)

getCandidateKeys(d, words, query) ==
    LET keys == UNION {Range(d.InvertedIndex[w]) : w \in DOMAIN d.InvertedIndex}
        counts == [key \in keys |-> candidateCount(d, words, query, key)]
    IN  [key \in {k \in keys : counts[k] > 0} |-> counts[key]]

hasAllWords(key, words) ==
    \A i \in 1..Len(words) : Contains(ToLower(key), words[i])

getScoreThreshold(key) ==
    IF Contains(key, ".sros.") THEN SROSScoreThreshold * Scale
    ELSE DefaultScoreThreshold * Scale

calculateCandidateScore(d, key, matchCount, query, words, kwOrder) ==
    matchCount * BaseIndexMatchScore * Scale
    + (IF hasAllWords(key, words) THEN Len(words) * AllWordsMatchBonus * Scale ELSE 0)
    + entryScore(key, d.Table[key], query, words, kwOrder)

\* scoreCandidates; order is the iteration order of the candidateKeys map
scoreCandidates(d, candidateKeys, query, words, order, kwOrder) ==
    LET scored == [i \in 1..Len(order) |->
                    [key |-> order[i],
                     score |-> calculateCandidateScore(d, order[i], candidateKeys[order[i]],
                                                       query, words, kwOrder)]]
    IN  SortByScore(SelectSeq(scored, LAMBDA c : c.score > getScoreThreshold(c.key)),
                    "score")

generateIndexedSearchResults(candidates) ==
    [i \in 1..(IF Len(candidates) < MaxSearchResults THEN Len(candidates)
               ELSE MaxSearchResults) |->
        [Key |-> candidates[i].key, Score |-> candidates[i].score]]

\* Engine.IndexedSearch; order enumerates the Table's keys: the exhaustive
\* scan follows it, the candidateKeys map is visited in the same relative order
IndexedSearch(d, query, order, kwOrder) ==
    CHOOSE out \in
        {IF DOMAIN candidateKeys = {} THEN Search(d, query, order, kwOrder)
         ELSE generateIndexedSearchResults(
                scoreCandidates(d, candidateKeys, query, words,
                                SelectSeq(order, LAMBDA k : k \in DOMAIN candidateKeys),
                                kwOrder)) :
            <<words, candidateKeys>> \in
                {<<w, getCandidateKeys(d, w, query)>> :
                    w \in {ExpandSynonyms(Tokenize(query))}}} : TRUE

(***************************************************************************)
(* The calls made on a loaded catalog.  A method of *Engine is a function   *)
(* of its receiver's catalog and its arguments that yields the catalog the  *)
(* call leaves behind and the value it returns.                             *)
(***************************************************************************)
\* every call made on a loaded catalog: <<catalog, query, Table order, keyword order>>
CallArgs ==
    UNION {{<<LoadedDB[p], q, o, kw>> : q \in Queries, o \in MapOrders(CatalogKeyLists[p]),
                                        kw \in KeywordOrders} : p \in CatalogPaths}

\* Search and IndexedSearch tabulated over those calls
SearchTable == [a \in CallArgs |-> Search(a[1], a[2], a[3], a[4])]

IndexedSearchTable == [a \in CallArgs |-> IndexedSearch(a[1], a[2], a[3], a[4])]

\* e.Search(query): Search assigns to neither e.db.Table nor e.db.InvertedIndex
EngineSearch(d, query, order, kwOrder) ==
    [db |-> d, results |-> SearchTable[<<d, query, order, kwOrder>>]]

\* a faulty IndexedSearch: the index lookup files every query word under the
\* index, with an empty posting list for a word the index did not hold
EngineIndexedSearchFiling(d, query, order, kwOrder) ==
    [db |-> [d EXCEPT !.InvertedIndex =
                [w \in DOMAIN d.InvertedIndex \cup Range(QueryWords[query]) |->
                    IF w \in DOMAIN d.InvertedIndex THEN d.InvertedIndex[w] ELSE <<>>]],
     results |-> IndexedSearchTable[<<d, query, order, kwOrder>>]]

\* e.IndexedSearch(query): the candidateKeys map it fills is a local; it assigns
\* to neither e.db.Table nor e.db.InvertedIndex
EngineIndexedSearch(d, query, order, kwOrder) ==
    [db |-> d, results |-> IndexedSearchTable[<<d, query, order, kwOrder>>]]

NoCall == [op |-> "none", query |-> "", order |-> <<>>, kwOrder |-> <<>>, key |-> ""]

Init ==
    /\ \E p \in CatalogPaths : db = LoadedDB[p]
    /\ call = NoCall
    /\ results = <<>>

\* a caller runs engine.Search(query)
DoSearch ==
    \E query \in Queries, order \in MapOrders(KeyOrderOf(db.Table)), kwOrder \in KeywordOrders :
        \E after \in {EngineSearch(db, query, order, kwOrder)} :
            /\ db' = after.db
            /\ results' = after.results
            /\ call' = [op |-> "Search", query |-> query, order |-> order,
                        kwOrder |-> kwOrder, key |-> ""]

\* a caller (the CLI's main) runs engine.IndexedSearch(query)
DoIndexedSearch ==
    \E query \in Queries, order \in MapOrders(KeyOrderOf(db.Table)), kwOrder \in KeywordOrders :
        \E after \in {EngineIndexedSearch(db, query, order, kwOrder)} :
            /\ db' = after.db
            /\ results' = after.results
            /\ call' = [op |-> "IndexedSearch", query |-> query, order |-> order,
                        kwOrder |-> kwOrder, key |-> ""]

Next == DoSearch \/ DoIndexedSearch

Spec == Init /\ [][Next]_vars

(***************************************************************************)
(* scoreEntry applied to drawn arguments                                   *)
(***************************************************************************)
InitScore ==
    /\ \E p \in CatalogPaths : db = LoadedDB[p]
    /\ \E key \in DOMAIN db.Table, query \in Queries, kwOrder \in KeywordOrders :
            call = [op |-> "idle", query |-> query, order |-> <<>>,
                    kwOrder |-> kwOrder, key |-> key]
    /\ results = <<>>

\* e.scoreEntry(key, entry, query, words) with the drawn arguments
DoScoreEntry ==
    /\ call.op = "idle"
    /\ results' = <<[Key |-> call.key,
                     Score |-> scoreTable[<<call.key, db.Table[call.key], call.query,
                                            call.kwOrder>>]]>>
    /\ call' = [call EXCEPT !.op = "scoreEntry"]
    /\ db' = db

NextScore == DoScoreEntry

SpecScore == InitScore /\ [][NextScore]_vars

(***************************************************************************)
(* The clause extractor's operations applied to drawn arguments             *)
(***************************************************************************)
\* the query strings given to the extractor
ExtractQueries ==
    {"interface", "interface mtu state", "show interface name and status",
     "every 5 seconds", "every 10 milliseconds", "real-time alarms",
     "interface statistics every 5 seconds or every 10 milliseconds",
     "cpu every 0 seconds", "Memory usage EVERY 15 SECONDS",
     "interface errors", "show Errors and mtu state"}

ExtractCatalogs == {"srl.json", "sros.json"}

\* phrases the queries given to ExtractLimit are made of
LimitPhrases ==
    {"top 5", "Top 0", "top 5000", "first 7", "limit 1000", "limit 1001",
     "20 results", "highest", "top", "show 12345678901234567890 results"}

\* longest sequence of phrases in a query given to ExtractLimit
MaxPhrases == 2

LimitQueries ==
    {Join(ps, " ") : ps \in UNION {[1..n -> LimitPhrases] : n \in 0..MaxPhrases}}

\* the arguments drawn: every table of a catalog with every extractor query,
\* and the limit queries with the first table
ExtractArgs ==
    {[catalog |-> p, query |-> query, order |-> unitOrder, kwOrder |-> kwOrder, key |-> key] :
        p \in ExtractCatalogs, query \in ExtractQueries, unitOrder \in MapOrders(DeltaUnits),
        kwOrder \in KeywordOrders, key \in UNION {DOMAIN CatalogTables[c] : c \in ExtractCatalogs}}
    \cup {[catalog |-> "srl.json", query |-> query, order |-> DeltaUnits,
           kwOrder |-> FieldKeywordList, key |-> SmallSRLKeys[1]] : query \in LimitQueries}

InitExtract ==
    /\ \E a \in ExtractArgs :
        /\ a.key \in DOMAIN CatalogTables[a.catalog]
        /\ db = LoadedDB[a.catalog]
        /\ call = [op |-> "idle", query |-> a.query, order |-> a.order,
                   kwOrder |-> a.kwOrder, key |-> a.key]
    /\ results = <<>>

\* eql.ExtractFields(query, tablePath, &entry)
DoExtractFields ==
    /\ call.op = "idle"
    /\ results' = ExtractFields(call.query, call.key, db.Table[call.key], call.kwOrder)
    /\ call' = [call EXCEPT !.op = "ExtractFields"]
    /\ db' = db

\* eql.ExtractDelta(query)
DoExtractDelta ==
    /\ call.op = "idle"
    /\ results' = <<ExtractDelta(call.query, call.order)>>
    /\ call' = [call EXCEPT !.op = "ExtractDelta"]
    /\ db' = db

\* eql.ExtractLimit(query)
DoExtractLimit ==
    /\ call.op = "idle"
    /\ results' = <<ExtractLimit(call.query)>>
    /\ call' = [call EXCEPT !.op = "ExtractLimit"]
    /\ db' = db

NextExtract == DoExtractFields \/ DoExtractDelta \/ DoExtractLimit

SpecExtract == InitExtract /\ [][NextExtract]_vars

(***************************************************************************)
(* The WHERE and ORDER BY extractors applied to drawn arguments             *)
(***************************************************************************)
\* the tables named in the calls: the node-scoped tables, the alarm table and a
\* node-scoped alarm table that declares a memory field and a time field
ClauseTable ==
    SmallSRLTable @@ (alarmPath :> alarmEntry)
        @@ (".namespace.node.srl.platform.alarm" :>
                Entry("platform alarms", "Resource alarms of the platform",
                      <<"name", "memory-usage", "time-created">>))

ClauseQueries ==
    {"", "interfaces on leaf1", "leaf1 and leaf2 interfaces",
     "enabled interfaces on Leaf1, leaf2 and leaf1?", "interfaces on x",
     "up interfaces with mtu 9000 on spine1", "bgp neighbors down for leaf1 from spine2.",
     "mtu > 1500 and name equal to 7", "top memory processes", "lowest memory and top cpu",
     "latest critical alarms", "sort top memory lowest recent", "sort processes",
     "sort by most cpu on leaf12", "statistics for ethernet"}

\* every table with every query, every order of the conditions map and, as the
\* available fields, no field or the fields the entry declares
ClauseArgs ==
    UNION {{[key |-> key, query |-> query, order |-> order, fields |-> fields] :
               order \in MapOrders(ExtractConditions(query, key).fields),
               fields \in {<<>>, ParseEmbeddingText(ClauseTable[key].Text)}} :
           key \in DOMAIN ClauseTable, query \in ClauseQueries}

InitClause ==
    /\ db = LoadedDB["srl.json"]
    /\ \E a \in ClauseArgs :
        call = [op |-> "idle", query |-> a.query, key |-> a.key,
                order |-> a.order, fields |-> a.fields]
    /\ results = <<>>

\* eql.GenerateWhereClause(tablePath, query)
DoGenerateWhereClause ==
    /\ call.op = "idle"
    /\ results' = <<GenerateWhereClause(call.key, call.query, call.order)>>
    /\ call' = [call EXCEPT !.op = "GenerateWhereClause"]
    /\ db' = db

\* eql.GenerateWhereClauseWithValidation(tablePath, query, availableFields)
DoGenerateWhereClauseWithValidation ==
    /\ call.op = "idle"
    /\ results' = <<GenerateWhereClauseWithValidation(call.key, call.query, call.fields,
                                                      call.order)>>
    /\ call' = [call EXCEPT !.op = "GenerateWhereClauseWithValidation"]
    /\ db' = db

\* eql.ExtractOrderBy(query, tablePath, &entry)
DoExtractOrderBy ==
    /\ call.op = "idle"
    /\ results' = ExtractOrderBy(call.query, call.key, ClauseTable[call.key])
    /\ call' = [call EXCEPT !.op = "ExtractOrderBy"]
    /\ db' = db

NextClause == DoGenerateWhereClause \/ DoGenerateWhereClauseWithValidation \/ DoExtractOrderBy

SpecClause == InitClause /\ [][NextClause]_vars
(***************************************************************************)
(* Properties of the search calls (checked under Spec)                     *)
(***************************************************************************)
Searched == call.op \in {"Search", "IndexedSearch"}

\* words of the call's query
CallWords == QueryWords[call.query]

KeysOf(list) == [i \in 1..Len(list) |-> list[i].Key]

ResultKeys == Range(KeysOf(results))

\* the score the exhaustive scan gives catalog entry k for the call's query
CatalogScore(k) == scoreTable[<<k, db.Table[k], call.query, call.kwOrder>>]

\* the catalog entries that pass the scan's admission threshold
Admitted == {k \in DOMAIN db.Table : CatalogScore(k) > MinScoreThreshold * Scale}

AlarmWordInQuery == \E i \in 1..Len(CallWords) : CallWords[i] \in {"alarm", "alarms"}

HasAlarmResult == \E i \in 1..Len(results) : results[i].Key = alarmPath /\ results[i].Score > 0

\* C1: Search returns a true top-10: no admitted catalog entry that is absent
\* from the returned list scores strictly higher than a catalog entry that is
\* in the list.
C1_TrueTopTen ==
    call.op = "Search" =>
        \A missed \in Admitted \ ResultKeys :
            \A i \in 1..Len(results) :
                results[i].Key \in DOMAIN db.Table =>
                    results[i].Score >= CatalogScore(missed)

\* a Search over a catalog with more than MaxSearchResults and fewer than
\* MaxCandidates admitted entries that returns an entry scoring strictly less
\* than an admitted entry it left out
C1_MissedBelowCapacity ==
    /\ call.op = "Search"
    /\ Cardinality(Admitted) > MaxSearchResults
    /\ Cardinality(Admitted) < MaxCandidates
    /\ \E missed \in Admitted \ ResultKeys :
        \E i \in 1..Len(results) :
            /\ results[i].Key \in DOMAIN db.Table
            /\ results[i].Score < CatalogScore(missed)

\* C2: the list Search returns and the list IndexedSearch returns hold at most
\* MaxSearchResults results, and their scores never increase from one result
\* to the next.
C2_BoundedAndSorted ==
    Searched =>
        /\ Len(results) <= MaxSearchResults
        /\ \A i \in 1..(Len(results) - 1) : results[i].Score >= results[i + 1].Score

\* a full list in which the alarm result stands below a catalog entry that
\* scores strictly higher, over a catalog with more admitted entries than fit
C2_FullListWithAlarm ==
    /\ call.op = "Search"
    /\ Len(results) = MaxSearchResults
    /\ Cardinality(Admitted) > MaxSearchResults
    /\ \E i \in 2..Len(results) :
        /\ results[i].Key = alarmPath
        /\ results[i - 1].Score > results[i].Score

\* C3: when the index's candidate set is the whole Table, IndexedSearch returns
\* the keys Search returns for the same query, in the same order.
C3_SameOrdering ==
    (/\ call.op = "IndexedSearch"
     /\ DOMAIN getCandidateKeys(db, CallWords, call.query) = DOMAIN db.Table)
        => KeysOf(results)
            = KeysOf(SearchTable[<<db, call.query, call.order, call.kwOrder>>])

\* an IndexedSearch whose candidate set is the whole, non-empty Table and whose
\* keys differ from Search's
C3_DifferentOrdering ==
    /\ call.op = "IndexedSearch"
    /\ DOMAIN db.Table # {}
    /\ DOMAIN getCandidateKeys(db, CallWords, call.query) = DOMAIN db.Table
    /\ KeysOf(results) # KeysOf(SearchTable[<<db, call.query, call.order, call.kwOrder>>])

\* C4: for a query whose expanded tokens hold "alarm" or "alarms", the list
\* Search returns holds a result with the alarm table's key and a positive
\* score, whatever the catalog.
C4_AlarmSurfaced ==
    (call.op = "Search" /\ AlarmWordInQuery) => HasAlarmResult

\* a Search for an alarm query in which at least MaxSearchResults catalog
\* entries score strictly higher than the alarm result, and the alarm result
\* is in the full list
C4_AlarmKeptInFullList ==
    /\ call.op = "Search"
    /\ AlarmWordInQuery
    /\ Len(results) = MaxSearchResults
    /\ Cardinality({k \in Admitted : CatalogScore(k) > calculateAlarmScore(CallWords)})
            >= MaxSearchResults
    /\ HasAlarmResult

\* C5: IndexedSearch returns the alarm result for every query with an alarm or
\* severity word, also when the index yields candidates.
C5_IndexedAlarmSurfaced ==
    (call.op = "IndexedSearch" /\ calculateAlarmScore(CallWords) > 0)
        => \E i \in 1..Len(results) : results[i].Key = alarmPath

\* an IndexedSearch for an alarm query with index candidates that returns
\* results, none of them the alarm result
C5_AlarmDropped ==
    /\ call.op = "IndexedSearch"
    /\ calculateAlarmScore(CallWords) > 0
    /\ DOMAIN getCandidateKeys(db, CallWords, call.query) # {}
    /\ results # <<>>
    /\ \A i \in 1..Len(results) : results[i].Key # alarmPath

\* C6: for a query that tokenizes to no token, Search and IndexedSearch return
\* no result.
C6_EmptyQueryNoResults ==
    (Searched /\ CallWords = <<>>) => results = <<>>

\* a search for the empty string that returns catalog entries
C6_EmptyQueryResults ==
    /\ Searched
    /\ call.query = ""
    /\ results # <<>>
    /\ \A i \in 1..Len(results) : results[i].Key \in DOMAIN db.Table

\* no word of the call's query occurs in an entry's key, reference text or
\* description
NoTokenOccurs ==
    \A i \in 1..Len(CallWords), k \in DOMAIN db.Table :
        /\ ~Contains(ToLower(k), CallWords[i])
        /\ ~Contains(ToLower(db.Table[k].ReferenceText), CallWords[i])
        /\ ~Contains(ToLower(jsonUnmarshal(db.Table[k].Text).Description), CallWords[i])

\* C7: for a query with tokens, none an alarm or severity word and none
\* occurring in any entry, Search and IndexedSearch return the empty list.
C7_NoMatchNoResults ==
    (/\ Searched
     /\ Len(CallWords) > 0
     /\ calculateAlarmScore(CallWords) = 0
     /\ NoTokenOccurs)
        => results = <<>>

\* a search whose query matches nothing and that returns entries
C7_NoMatchResults ==
    /\ Searched
    /\ Len(CallWords) > 0
    /\ calculateAlarmScore(CallWords) = 0
    /\ NoTokenOccurs
    /\ results # <<>>

\* C10: a search call changes neither db.Table nor db.InvertedIndex.
C10_CatalogUnchanged ==
    [][db'.Table = db.Table /\ db'.InvertedIndex = db.InvertedIndex]_vars

\* an IndexedSearch that went through the index, the interface postings
\* included, returned results, and left a catalog that is the loaded one
C10_IndexedSearchOverIndex ==
    /\ call.op = "IndexedSearch"
    /\ shouldAddInterfaceCandidates(CallWords, call.query, detectSROSDatabase(db))
    /\ DOMAIN getCandidateKeys(db, CallWords, call.query) # {}
    /\ results # <<>>
    /\ \E p \in CatalogPaths : db = LoadedDB[p] /\ DOMAIN db.InvertedIndex # {}

(***************************************************************************)
(* Properties of scoreEntry (checked under SpecScore)                      *)
(***************************************************************************)
\* C8: the score of (key, entry, query, words) is the same under every
\* iteration order of the keyword table ExtractFields reads.
C8_ScoreOrderIndependent ==
    call.op = "scoreEntry" =>
        \A kwOrder \in KeywordOrders :
            scoreTable[<<call.key, db.Table[call.key], call.query, kwOrder>>]
                = results[1].Score

\* a scored call whose extracted field list does depend on the order of the
\* keyword table
C8_FieldOrderVaries ==
    /\ call.op = "scoreEntry"
    /\ \E kwOrder \in KeywordOrders :
        ExtractFields(call.query, call.key, db.Table[call.key], kwOrder)
            # ExtractFields(call.query, call.key, db.Table[call.key], call.kwOrder)

(***************************************************************************)
(* Properties of the clause extractor (checked under SpecExtract)          *)
(***************************************************************************)
\* C9: ExtractFields and ExtractDelta return the same value for the same
\* arguments under every iteration order of the map they range over.
C9_ExtractorsDeterministic ==
    /\ call.op = "ExtractFields" =>
        \A kwOrder \in KeywordOrders :
            ExtractFields(call.query, call.key, db.Table[call.key], kwOrder) = results
    /\ call.op = "ExtractDelta" =>
        \A unitOrder \in MapOrders(DeltaUnits) :
            ExtractDelta(call.query, unitOrder) = results[1]

\* an ExtractDelta call for a query with both phrases whose value differs
\* under another order of the patterns map
C9_DeltaDependsOnOrder ==
    /\ call.op = "ExtractDelta"
    /\ everyMatch(ToLower(call.query), "second") # ""
    /\ everyMatch(ToLower(call.query), "millisecond") # ""
    /\ \E unitOrder \in MapOrders(DeltaUnits) : ExtractDelta(call.query, unitOrder) # results[1]

(***************************************************************************)
(* The tokenizer's operations applied to drawn arguments                   *)
(***************************************************************************)
\* longest word list drawn
MaxWords == 3

\* words the drawn strings are made of
WordPool ==
    {"the", "Show", "interface", "a", "x", "stats", "BGP.neighbor", "for"}

\* separators put between the words of a drawn string
Separators == {" ", "_", " - "}

WordLists == UNION {[1..n -> WordPool] : n \in 0..MaxWords}

\* strings given to Tokenize by its callers and by its test
TokenizeInputs ==
    {"show the interface statistics for the router", "the and or", "cpu_usage_percent"}

\* the arguments drawn: a string made of a word list, or a given string
TokenizeArgs ==
    {[query |-> Join(ws, sep), words |-> ws] : ws \in WordLists, sep \in Separators}
        \cup {[query |-> s, words |-> <<>>] : s \in TokenizeInputs}

InitTokenize ==
    /\ db = LoadedDB["empty.json"]
    /\ results = <<>>
    /\ \E a \in TokenizeArgs : call = [op |-> "idle", query |-> a.query, words |-> a.words]

\* search.Tokenize(s)
DoTokenize ==
    /\ call.op = "idle"
    /\ results' = Tokenize(call.query)
    /\ call' = [call EXCEPT !.op = "Tokenize"]
    /\ UNCHANGED db

\* search.Tokenize(strings.Join(tokens, " ")) on the tokens of a first call
DoRetokenize ==
    /\ call.op = "Tokenize"
    /\ results' = Tokenize(Join(results, " "))
    /\ call' = [call EXCEPT !.op = "Retokenize", !.words = results]
    /\ UNCHANGED db

\* search.ExpandSynonyms(words)
DoExpandSynonyms ==
    /\ call.op = "idle"
    /\ results' = ExpandSynonyms(call.words)
    /\ call' = [call EXCEPT !.op = "ExpandSynonyms"]
    /\ UNCHANGED db

NextTokenize == DoTokenize \/ DoRetokenize \/ DoExpandSynonyms

SpecTokenize == InitTokenize /\ [][NextTokenize]_vars

(***************************************************************************)
(* Properties of the tokenizer (checked under SpecTokenize)                *)
(***************************************************************************)
\* the lowercased query with '.', '-' and '_' replaced by spaces, split on
\* white space
RawTokens ==
    Fields(ReplaceWithSpace(ReplaceWithSpace(ReplaceWithSpace(ToLower(call.query),
                                                               "."), "-"), "_"))

\* number of raw tokens that are no stop word and at least MinTokenLength long
MeaningfulCount ==
    Cardinality({i \in 1..Len(RawTokens) :
                    RawTokens[i] \notin stopWords /\ Len(RawTokens[i]) >= MinTokenLength})

\* C11: with at least 2 meaningful tokens Tokenize returns the tokens that are
\* no stop word, in order; otherwise it returns every token, stop words
\* included.
C11_TokenizeFilters ==
    call.op = "Tokenize" =>
        IF MeaningfulCount >= 2
        THEN results = SelectSeq(RawTokens, LAMBDA t : t \notin stopWords)
        ELSE results = RawTokens

\* a Tokenize call with one meaningful token that returned its stop words too
C11_StopWordsKept ==
    /\ call.op = "Tokenize"
    /\ MeaningfulCount = 1
    /\ \E i \in 1..Len(results) : results[i] \in stopWords
    /\ Len(results) >= 2

\* C12: tokenizing the tokens of a first call, joined by spaces, returns those
\* tokens.
C12_TokenizeIdempotent ==
    call.op = "Retokenize" => results = call.words

\* a second Tokenize over tokens from which the first call had filtered stop
\* words
C12_RetokenizedFiltered ==
    /\ call.op = "Retokenize"
    /\ Len(call.words) >= 2
    /\ Len(call.words) < Len(RawTokens)

\* C13: ExpandSynonyms returns a list as long as its input, holding at each
\* place the input word's synonym when it has one and the input word otherwise.
C13_SynonymsPerToken ==
    call.op = "ExpandSynonyms" =>
        /\ Len(results) = Len(call.words)
        /\ \A i \in 1..Len(call.words) :
            results[i] = (IF call.words[i] \in DOMAIN synonyms
                          THEN synonyms[call.words[i]] ELSE call.words[i])

\* an ExpandSynonyms call that replaced one word and kept another
C13_SomeReplaced ==
    /\ call.op = "ExpandSynonyms"
    /\ \E i, j \in 1..Len(call.words) :
        /\ call.words[i] \in DOMAIN synonyms /\ results[i] # call.words[i]
        /\ call.words[j] \notin DOMAIN synonyms /\ results[j] = call.words[j]

(***************************************************************************)
(* Properties of the LIMIT clause (checked under SpecExtract)              *)
(***************************************************************************)
\* the captures of ExtractLimit's patterns in the call's query, in pattern order
LimitCaptures ==
    [i \in 1..Len(LimitPatterns) |->
        FindStringSubmatch(ToLower(call.query), LimitPatterns[i][1], LimitPatterns[i][2])]

\* the value ExtractLimit falls back on
LimitDefault ==
    IF Contains(ToLower(call.query), "top") \/ Contains(ToLower(call.query), "highest")
    THEN DefaultTopLimit ELSE 0

\* C14: ExtractLimit returns a value in 0..MaxLimitValue; the first pattern, in
\* order, that matches decides: its number when that is in 1..MaxLimitValue,
\* and otherwise, or when no pattern matches, DefaultTopLimit for a query with
\* "top" or "highest" and 0 for any other.
C14_FirstMatchWins ==
    call.op = "ExtractLimit" =>
        /\ results[1] \in 0..MaxLimitValue
        /\ LET matched == {i \in 1..Len(LimitPatterns) : LimitCaptures[i] # ""}
               first   == CHOOSE i \in matched : \A j \in matched : i <= j
           IN  IF matched # {} /\ LimitInRange(LimitCaptures[first])
               THEN results[1] = Atoi(LimitCaptures[first])
               ELSE results[1] = LimitDefault

\* an ExtractLimit call whose first matching pattern holds a number out of
\* range and that returned the number of a later pattern
C14_LaterPatternWins ==
    /\ call.op = "ExtractLimit"
    /\ LimitCaptures[1] # ""
    /\ ~LimitInRange(LimitCaptures[1])
    /\ \E i \in 2..Len(LimitPatterns) :
        LimitInRange(LimitCaptures[i]) /\ results[1] = Atoi(LimitCaptures[i])
    /\ results[1] # LimitDefault

(***************************************************************************)
(* Properties of the DELTA clause (checked under SpecExtract)              *)
(***************************************************************************)
\* the number of the query's leftmost "every N <unit>s" phrase, 0 without one
IntervalOf(unit) ==
    IF everyMatch(ToLower(call.query), unit) = "" THEN 0
    ELSE Atoi(everyMatch(ToLower(call.query), unit))

\* C15: ExtractDelta returns {milliseconds, N} for a query with "every N
\* milliseconds", {seconds, N} for a query with "every N seconds" and no
\* milliseconds phrase (N > 0), {seconds, 1} for a query with "real" and
\* "time" and no such phrase, and none otherwise.
C15_DeltaByPhrase ==
    call.op = "ExtractDelta" =>
        results[1] =
            IF IntervalOf("millisecond") > 0
            THEN [isNil |-> FALSE, Unit |-> "milliseconds", Value |-> IntervalOf("millisecond")]
            ELSE IF IntervalOf("second") > 0
            THEN [isNil |-> FALSE, Unit |-> "seconds", Value |-> IntervalOf("second")]
            ELSE IF Contains(ToLower(call.query), "real") /\ Contains(ToLower(call.query), "time")
            THEN [isNil |-> FALSE, Unit |-> "seconds", Value |-> RealTimeIntervalSeconds]
            ELSE NoDelta

\* an ExtractDelta call for a query with an "every M milliseconds" phrase that
\* returned the seconds of its "every N seconds" phrase
C15_SecondsReturned ==
    /\ call.op = "ExtractDelta"
    /\ IntervalOf("millisecond") > 0
    /\ IntervalOf("second") > 0
    /\ results[1] = [isNil |-> FALSE, Unit |-> "seconds", Value |-> IntervalOf("second")]

(***************************************************************************)
(* Properties of the WHERE clause                                          *)
(***************************************************************************)
\* the tokens of the query that name a node, in the order of their first
\* appearance and without duplicates: a leaf*/spine* token that ends in a digit, or
\* a token of at least minLen bytes after "on"/"for"/"from" that is no skip word
NodeTokens(query, minLen) ==
    LET words == Fields(ToLower(query))
        token(i) == cleanPunctuation(words[i])
        named(i) ==
            \/ /\ HasPrefix(token(i), "leaf") \/ HasPrefix(token(i), "spine")
               /\ IsDigit(CharAt(token(i), Len(token(i))))
            \/ /\ i > 1
               /\ token(i - 1) \in {"on", "for", "from"}
               /\ token(i) \notin skipWords
               /\ Len(token(i)) >= minLen
        firsts == {i \in 1..Len(words) :
                      named(i) /\ \A j \in 1..(i - 1) : named(j) => token(j) # token(i)}
        nth(k) == CHOOSE i \in firsts : Cardinality({j \in firsts : j <= i}) = k
    IN  [k \in 1..Cardinality(firsts) |-> token(nth(k))]

\* the fragment that names the nodes: = for one name, in [...] for several
NodeFragment(names) ==
    IF Len(names) = 1 THEN ".namespace.node.name = " \o Quote \o names[1] \o Quote
    ELSE ".namespace.node.name in ["
            \o Join([i \in 1..Len(names) |-> Quote \o names[i] \o Quote], ", ") \o "]"

\* the clause begins with the fragment of names when the path is node-scoped and
\* there is a name, and names no node otherwise
RendersNodes(clause, tablePath, names) ==
    IF Contains(tablePath, ".namespace.node.") /\ Len(names) > 0
    THEN /\ clause = NodeFragment(names) \/ HasPrefix(clause, NodeFragment(names) \o " and ")
         /\ ~Contains(SubSeq(clause, 2, Len(clause)), ".namespace.node.name")
    ELSE ~Contains(clause, ".namespace.node.name")

\* C16 as stated: GenerateWhereClause renders every node name of the query
\* (leaf*/spine* token ending in a digit, or the token after "on"/"for"/"from"
\* that is no skip word), in order of first appearance and without duplicates, as
\* one fragment before every condition when the path contains ".namespace.node.",
\* and renders no node fragment otherwise
C16_NodeNamesRendered ==
    call.op = "GenerateWhereClause" =>
        RendersNodes(results[1], call.key, NodeTokens(call.query, 0))

\* C16: GenerateWhereClause renders as above the node names of the query, where a
\* token after "on"/"for"/"from" is a name only if it is longer than one byte
C16_LongNodeNamesRendered ==
    call.op = "GenerateWhereClause" =>
        RendersNodes(results[1], call.key, NodeTokens(call.query, 2))

\* a query with a repeated name gave an "in" fragment followed by a condition
C16_SeveralNodesBeforeCondition ==
    /\ call.op = "GenerateWhereClause"
    /\ \E i, j \in 1..Len(Fields(ToLower(call.query))) :
          /\ i < j
          /\ cleanPunctuation(Fields(ToLower(call.query))[i])
                = cleanPunctuation(Fields(ToLower(call.query))[j])
          /\ cleanPunctuation(Fields(ToLower(call.query))[i]) = NodeTokens(call.query, 2)[1]
    /\ Len(NodeTokens(call.query, 2)) = 2
    /\ HasPrefix(results[1], ".namespace.node.name in [")
    /\ Contains(results[1], "] and ")

\* the fragments of a clause: its parts between the " and " separators
RECURSIVE Fragments(_)
Fragments(clause) ==
    IF clause = "" THEN <<>>
    ELSE IF Index(clause, " and ") = 0 THEN <<clause>>
    ELSE <<SubSeq(clause, 1, Index(clause, " and ") - 1)>>
            \o Fragments(SubSeq(clause, Index(clause, " and ") + 5, Len(clause)))

\* the fragments of a clause that state a condition, not the node names
ConditionFragments(clause) ==
    {f \in Range(Fragments(clause)) : ~HasPrefix(f, ".namespace.node.name ")}

\* the field a condition fragment names: its text up to the first space
FragmentField(fragment) == TakeUntil(fragment, 1, " ")

\* C17: every condition fragment of GenerateWhereClauseWithValidation names a field
\* of availableFields, its condition fragments are those of GenerateWhereClause
\* whose field is available, and with no available field its output holds at most
\* the node-name fragment
C17_OnlyAvailableFields ==
    call.op = "GenerateWhereClauseWithValidation" =>
        /\ \A f \in ConditionFragments(results[1]) :
              SliceContains(call.fields, FragmentField(f))
        /\ ConditionFragments(results[1])
              = {f \in ConditionFragments(GenerateWhereClause(call.key, call.query, call.order)) :
                    SliceContains(call.fields, FragmentField(f))}
        /\ call.fields = <<>> =>
              /\ Len(Fragments(results[1])) <= 1
              /\ ConditionFragments(results[1]) = {}

\* a call dropped a condition of an undeclared field and kept one of a declared field
C17_ConditionDropped ==
    /\ call.op = "GenerateWhereClauseWithValidation"
    /\ ConditionFragments(results[1]) # {}
    /\ ConditionFragments(results[1])
          # ConditionFragments(GenerateWhereClause(call.key, call.query, call.order))

(***************************************************************************)
(* Properties of the ORDER BY clause                                       *)
(***************************************************************************)
\* the Directions of the clauses of a list, in order
Directions(orderBy) == [i \in 1..Len(orderBy) |-> orderBy[i].Direction]

\* the lists of Directions that a descending-trigger clause, an ascending-trigger
\* clause and an alarm time clause give when each is present or absent
TriggerDirections ==
    {(IF d THEN <<"descending">> ELSE <<>>) \o (IF a THEN <<"ascending">> ELSE <<>>)
        \o (IF t THEN <<"descending">> ELSE <<>>) : d, a, t \in BOOLEAN}

IsDefaultClause(c) == c.Algorithm = "natural"

\* C18: ExtractOrderBy returns at most three clauses, in the order descending
\* trigger, ascending trigger, alarm time; the default clause (ascending, natural,
\* on a field whose name holds "name") is alone in the list and needs "sort" in the
\* query; every Field is a declared field and every Direction is "ascending" or
\* "descending"
C18_OrderByShape ==
    call.op = "ExtractOrderBy" =>
        /\ Len(results) <= 3
        /\ \A i \in 1..Len(results) :
              /\ SliceContains(ParseEmbeddingText(ClauseTable[call.key].Text), results[i].Field)
              /\ results[i].Direction \in {"ascending", "descending"}
        /\ IF \E i \in 1..Len(results) : IsDefaultClause(results[i])
           THEN /\ Len(results) = 1
                /\ results[1].Direction = "ascending"
                /\ Contains(ToLower(results[1].Field), "name")
                /\ Contains(ToLower(call.query), "sort")
           ELSE /\ Directions(results) \in TriggerDirections
                /\ Contains(Directions(results), <<"ascending">>) =>
                      Contains(ToLower(call.query), "lowest")
                          \/ Contains(ToLower(call.query), "least")
                /\ Len(results) = 3 => Contains(call.key, "alarm")

\* a query that holds "sort" gave the three trigger clauses and no default clause
C18_ThreeClauses ==
    /\ call.op = "ExtractOrderBy"
    /\ Len(results) = 3
    /\ Contains(ToLower(call.query), "sort")

(***************************************************************************)
(* Properties of the field extractor                                       *)
(***************************************************************************)
\* the declared field's lowered name contains a fragment that the dictionary maps
\* from a keyword the lowered query contains
MatchesQuery(field, query) ==
    \E keyword \in DOMAIN FieldKeywordMappings :
        /\ Contains(ToLower(query), keyword)
        /\ \E i \in 1..Len(FieldKeywordMappings[keyword]) :
              Contains(ToLower(field), FieldKeywordMappings[keyword][i])

\* the query holds "error", the path holds "interface" and not "statistics", and no
\* declared field matches the query
SuggestsStatistics(query, tablePath, declared) ==
    /\ Contains(ToLower(query), "error")
    /\ Contains(tablePath, "interface")
    /\ ~Contains(tablePath, "statistics")
    /\ \A i \in 1..Len(declared) : ~MatchesQuery(declared[i], query)

\* C19: ExtractFields returns a list without duplicates; it is the single literal
\* "statistics" when the query holds "error", the path holds "interface" and not
\* "statistics" and no declared field matched; otherwise every element is a declared
\* field that matches the query through the dictionary; a Text that is not JSON
\* gives no declared field
C19_FieldsDeclaredAndMatched ==
    call.op = "ExtractFields" =>
        /\ \A i, j \in 1..Len(results) : i # j => results[i] # results[j]
        /\ IF SuggestsStatistics(call.query, call.key,
                                 ParseEmbeddingText(db.Table[call.key].Text))
           THEN results = <<"statistics">>
           ELSE \A i \in 1..Len(results) :
                  /\ SliceContains(ParseEmbeddingText(db.Table[call.key].Text), results[i])
                  /\ MatchesQuery(results[i], call.query)
        /\ jsonUnmarshal(db.Table[call.key].Text).err => results \in {<<>>, <<"statistics">>}

\* a call returned the literal "statistics" alone for a table that declares fields
C19_StatisticsSuggested ==
    /\ call.op = "ExtractFields"
    /\ ParseEmbeddingText(db.Table[call.key].Text) # <<>>
    /\ ~SliceContains(ParseEmbeddingText(db.Table[call.key].Text), "statistics")
    /\ results = <<"statistics">>

(***************************************************************************)
(* BuildInvertedIndex called repeatedly on one catalog                     *)
(***************************************************************************)
\* most calls of BuildInvertedIndex on one catalog
MaxBuilds == 3

\* the numbers of tokens of the long entry's ReferenceText and description
LongRefTokens == 52
LongTextTokens == 33

\* the words <prefix>lo .. <prefix>hi in two digits, separated by spaces; halving
\* keeps the evaluation shallow
RECURSIVE NumberedWords(_, _, _)
NumberedWords(prefix, lo, hi) ==
    IF lo = hi
    THEN prefix \o CharAt(Digits, (lo \div 10) + 1) \o CharAt(Digits, (lo % 10) + 1)
    ELSE NumberedWords(prefix, lo, (lo + hi) \div 2) \o " "
            \o NumberedWords(prefix, ((lo + hi) \div 2) + 1, hi)

\* a catalog with an entry whose texts are longer than the limits of the index
LongKeys ==
    <<".namespace.node.srl.system.logging", ".namespace.node.srl.system.logging.buffer">>

LongTable ==
    (LongKeys[1] :> [ReferenceText |-> NumberedWords("r", 1, LongRefTokens),
                     Text |-> EntryText(NumberedWords("d", 1, LongTextTokens), <<"name">>)])
    @@ (LongKeys[2] :> Entry("r01 r01 logging buffer", "Buffer of the log", <<"name">>))

\* the catalogs BuildInvertedIndex is called on: the Table and its keys in file order
IndexCatalogs ==
    {[Table |-> CatalogTables[p], keys |-> CatalogKeyLists[p]] : p \in CatalogPaths}
        \cup {[Table |-> LongTable, keys |-> LongKeys]}

\* the InvertedIndex a catalog is given with: none, the one built from its Table,
\* or one that does not agree with its Table
GivenIndexes(catalog) ==
    {[given |-> "none", index |-> <<>>],
     [given |-> "built",
      index |-> BuildInvertedIndex([Table |-> catalog.Table, InvertedIndex |-> <<>>],
                                   catalog.keys).InvertedIndex],
     [given |-> "stale", index |-> "stale" :> <<"gone">>],
     [given |-> "stale", index |-> "interface" :> <<>>]}

\* the query words given to addIndexedCandidates
IndexWordLists ==
    {<<"interface">>, <<"interface", "interface">>, <<"interface", "statistics", "nothing">>,
     <<"logging", "r01", "r51", "r52">>, <<"d31", "d32", "logging", "logging">>}

InitIndex ==
    /\ \E catalog \in IndexCatalogs :
          \E g \in GivenIndexes(catalog) :
              /\ db = [Table |-> catalog.Table, InvertedIndex |-> g.index]
              /\ call = [op |-> "idle", calls |-> 0, order |-> catalog.keys,
                         keys |-> catalog.keys, given |-> g.given, words |-> <<>>]
    /\ results = <<>>

\* embedding.BuildInvertedIndex(db)
DoBuildInvertedIndex ==
    /\ call.op # "addIndexedCandidates"
    /\ call.calls < MaxBuilds
    /\ \E order \in MapOrders(call.keys) :
          /\ db' = BuildInvertedIndex(db, order)
          /\ call' = [call EXCEPT !.op = "BuildInvertedIndex", !.calls = call.calls + 1,
                                  !.order = order]
    /\ results' = results

\* e.addIndexedCandidates(words, candidateKeys) on an empty candidateKeys map
DoAddIndexedCandidates ==
    /\ call.op = "BuildInvertedIndex"
    /\ \E words \in IndexWordLists :
          /\ results' = <<[key \in {k \in UNION {Range(db.InvertedIndex[w]) :
                                                   w \in DOMAIN db.InvertedIndex} :
                                       addIndexedCandidates(db, words, k) > 0} |->
                              addIndexedCandidates(db, words, key)]>>
          /\ call' = [call EXCEPT !.op = "addIndexedCandidates", !.words = words]
    /\ db' = db

NextIndex == DoBuildInvertedIndex \/ DoAddIndexedCandidates

SpecIndex == InitIndex /\ [][NextIndex]_vars

\* the two indexes hold the same words, each with the same set of keys
SameIndex(a, b) ==
    /\ DOMAIN a = DOMAIN b
    /\ \A w \in DOMAIN a : Range(a[w]) = Range(b[w])

\* C20: BuildInvertedIndex is idempotent: a call on a catalog whose index is
\* populated leaves the index as it is, and a call that follows another call leaves
\* the same words with the same key sets
C20_BuildIdempotent ==
    [][/\ DOMAIN db.InvertedIndex # {} => db'.InvertedIndex = db.InvertedIndex
       /\ call.calls >= 1 => SameIndex(db'.InvertedIndex, db.InvertedIndex)]_vars

\* a second call was made, with another order of the Table, on an index that the
\* first call built from a catalog of several tables
C20_BuiltTwice ==
    /\ call.calls = 2
    /\ call.order # call.keys
    /\ Cardinality(DOMAIN db.Table) > 1
    /\ "stale" \notin DOMAIN db.InvertedIndex
    /\ \E w \in DOMAIN db.InvertedIndex : Len(db.InvertedIndex[w]) > 1

\* the first n tokens of a text
FirstTokens(text, n) ==
    CHOOSE first \in {SubSeq(tokens, 1, IF Len(tokens) > n THEN n ELSE Len(tokens)) :
                        tokens \in {Tokenize(text)}} : TRUE

\* the index of db was built by BuildInvertedIndex from an empty index
BuiltFromEmpty == call.calls >= 1 /\ call.given = "none"

\* C30: in an index built from an empty one, a key is listed under a word exactly
\* when the word is a token of the key, one of the first 50 tokens of the entry's
\* ReferenceText or one of the first 30 tokens of its Text
C30_FirstFiftyAndThirty ==
    BuiltFromEmpty =>
        \A key \in DOMAIN db.Table :
            {w \in DOMAIN db.InvertedIndex : key \in Range(db.InvertedIndex[w])}
                = Range(Tokenize(key))
                    \cup Range(FirstTokens(db.Table[key].ReferenceText, RefTokenLimit))
                    \cup Range(FirstTokens(db.Table[key].Text, TextTokenLimit))

\* the index was built from the catalog whose entry has 52 reference tokens and 33
\* description tokens: the 51st reference token and the 31st Text token are
\* indexed, the 52nd and the 32nd are not
C30_FiftyFirstIndexed ==
    /\ BuiltFromEmpty
    /\ call.keys = LongKeys
    /\ "r51" \in DOMAIN db.InvertedIndex
    /\ LongKeys[1] \in Range(db.InvertedIndex["r51"])
    /\ "d31" \in DOMAIN db.InvertedIndex
    /\ {"r52", "d32"} \cap DOMAIN db.InvertedIndex = {}

\* the occurrences of query words whose key list holds the key
WordHits(index, words, key) ==
    Cardinality({i \in 1..Len(words) :
                    words[i] \in DOMAIN index /\ key \in Range(index[words[i]])})

\* C29: in an index built from an empty one no key list holds a key twice, every
\* listed key is a key of Table and every key is listed under each of its own
\* tokens; the hit count addIndexedCandidates gives a key is the number of query
\* word occurrences whose list holds the key, at most one per occurrence
C29_IndexWellFormed ==
    BuiltFromEmpty =>
        /\ \A w \in DOMAIN db.InvertedIndex :
              /\ Cardinality(Range(db.InvertedIndex[w])) = Len(db.InvertedIndex[w])
              /\ Range(db.InvertedIndex[w]) \subseteq DOMAIN db.Table
        /\ \A key \in DOMAIN db.Table :
              \A t \in Range(Tokenize(key)) :
                  t \in DOMAIN db.InvertedIndex /\ key \in Range(db.InvertedIndex[t])
        /\ call.op = "addIndexedCandidates" =>
              /\ DOMAIN results[1] \subseteq DOMAIN db.Table
              /\ \A key \in DOMAIN db.Table :
                    IF key \in DOMAIN results[1]
                    THEN /\ results[1][key] = WordHits(db.InvertedIndex, call.words, key)
                         /\ results[1][key] <= Len(call.words)
                    ELSE WordHits(db.InvertedIndex, call.words, key) = 0

\* the index was built from entries that repeat a word, and a query with a word
\* twice counted each key once per occurrence
C29_CountedPerOccurrence ==
    /\ BuiltFromEmpty
    /\ call.op = "addIndexedCandidates"
    /\ call.keys = LongKeys
    /\ call.words = <<"d31", "d32", "logging", "logging">>
    /\ db.InvertedIndex["r01"] = <<LongKeys[1], LongKeys[2]>>
    /\ results[1][LongKeys[1]] = 3
    /\ results[1][LongKeys[2]] = 2

(***************************************************************************)
(* The segment and bigram sub-scores applied to drawn arguments            *)
(***************************************************************************)
\* the query words given to the sub-scores
SubScoreWords ==
    {<<"interface">>, <<"statistics">>, <<"namespace">>, <<"missing">>,
     <<"interface", "statistics">>, <<"statistics", "interface">>,
     <<"interface", "ethernet", "statistics">>, <<"interface", "statistics", "interface">>,
     <<"srl", "interface">>, <<"node", "srl", "interface">>, <<"bgp", "neighbor">>,
     <<"router", "interface">>}

InitSubScore ==
    /\ \E p \in CatalogPaths : db = LoadedDB[p]
    /\ \E key \in DOMAIN db.Table, words \in SubScoreWords :
            call = [op |-> "idle", key |-> key, words |-> words]
    /\ results = <<>>

\* e.segmentMatchScoreV2(keyLower, words), keyLower as scoreEntry lowers the key
DoSegmentMatchScoreV2 ==
    /\ call.op = "idle"
    /\ results' = <<segmentMatchScoreV2(ToLower(call.key), call.words)>>
    /\ call' = [call EXCEPT !.op = "segmentMatchScoreV2"]
    /\ db' = db

\* e.bigramMatchScore(keyLower, words)
DoBigramMatchScore ==
    /\ call.op = "idle"
    /\ results' = <<bigramMatchScore(ToLower(call.key), call.words)>>
    /\ call' = [call EXCEPT !.op = "bigramMatchScore"]
    /\ db' = db

NextSubScore == DoSegmentMatchScoreV2 \/ DoBigramMatchScore

SpecSubScore == InitSubScore /\ [][NextSubScore]_vars

\* the number of '.'-delimited segments of the key after the first occurrence of
\* the word
SegmentsAfter(keyLower, word) ==
    Count(SubSeq(keyLower, Index(keyLower, word) + Len(word), Len(keyLower)), ".")

\* the three tiers by the number of following segments; exactly two following
\* segments take the given score
SegmentTier(following, atTwo) ==
    IF following = 0 THEN config.SegmentExactMatch
    ELSE IF following = 1 THEN config.SegmentNearMatch
    ELSE IF following = 2 THEN atTwo
    ELSE config.SegmentFarMatch

\* the sum of the tiers over the words found in the key
SegmentTierSum(keyLower, words, atTwo) ==
    SumOver([i \in 1..Len(words) |->
                IF Contains(keyLower, words[i])
                THEN SegmentTier(SegmentsAfter(keyLower, words[i]), atTwo) ELSE 0],
            Len(words))

\* C27: the segment sub-score is the sum, over the query words found in the
\* lowercased key, of 10 with no following segment, 6 with exactly one, 2 with
\* three or more, and of a value between the far and the near score with two
C27_ThreeTiers ==
    call.op = "segmentMatchScoreV2" =>
        /\ results[1] >= SegmentTierSum(ToLower(call.key), call.words, config.SegmentFarMatch)
        /\ results[1] <= SegmentTierSum(ToLower(call.key), call.words, config.SegmentNearMatch)

\* a word followed by one segment and a word followed by three scored nothing, and
\* a word followed by none scored 10
C27_OnlyLastSegmentScores ==
    /\ call.op = "segmentMatchScoreV2"
    /\ call.key = ".namespace.node.srl.interface.statistics"
    /\ \/ call.words = <<"interface">> /\ results[1] = 0
       \/ call.words = <<"node", "srl", "interface">> /\ results[1] = 0
       \/ call.words = <<"interface", "statistics">> /\ results[1] = config.SegmentExactMatch

\* the adjacent pairs of query words whose dot-joined form is in the key
AdjacentPairsInKey(keyLower, words) ==
    {i \in 1..(Len(words) - 1) : Contains(keyLower, words[i] \o "." \o words[i + 1])}

\* C28: the bigram sub-score is one BigramMatch for every adjacent pair of query
\* words whose dot-joined form is a substring of the lowercased key, and nothing
\* for any other pair
C28_AdjacentPairsOnly ==
    call.op = "bigramMatchScore" =>
        results[1] = config.BigramMatch
                        * Cardinality(AdjacentPairsInKey(ToLower(call.key), call.words))

\* a pair in reversed order, and a pair that is not adjacent, earned the bonus
C28_OtherPairsScored ==
    /\ call.op = "bigramMatchScore"
    /\ call.key = ".namespace.node.srl.interface.statistics"
    /\ call.words \in {<<"statistics", "interface">>, <<"interface", "ethernet", "statistics">>}
    /\ AdjacentPairsInKey(ToLower(call.key), call.words) = {}
    /\ results[1] = config.BigramMatch

(***************************************************************************)
(* ExtractConditions applied to drawn queries and table paths              *)
(***************************************************************************)
ConditionPaths ==
    {".namespace.node.srl.interface",
     ".namespace.node.srl.interface.ethernet",
     ".namespace.node.srl.interface.ethernet.transceiver",
     ".namespace.node.srl.network-instance.protocols.bgp.neighbor",
     ".namespace.node.srl.platform.control.process"}

ConditionQueries ==
    {"", "interfaces", "down interfaces", "up or down interfaces", "Enabled and disabled",
     "idle bgp neighbors down", "active or idle neighbors Down", "established neighbors down",
     "connect neighbors", "mtu 9000 and mtu > 1500", "mtu > 1500 with mtu 9000",
     "mtu 9000 mtu = 1 mtu less than 2", "lag members of lag 5", "lag members",
     "fiber sfp or copper", "ebgp peers as 65000 down"}

InitConditions ==
    /\ db = LoadedDB["srl.json"]
    /\ \E tablePath \in ConditionPaths, query \in ConditionQueries :
            call = [op |-> "idle", query |-> query, key |-> tablePath]
    /\ results = <<>>

\* eql.ExtractConditions(query, tablePath)
DoExtractConditions ==
    /\ call.op = "idle"
    /\ results' = <<ExtractConditions(call.query, call.key)>>
    /\ call' = [call EXCEPT !.op = "ExtractConditions"]
    /\ db' = db

NextConditions == DoExtractConditions

SpecConditions == InitConditions /\ [][NextConditions]_vars

\* the fields a stage's assignments write
AssignedFields(assignments) == {assignments[i][1] : i \in 1..Len(assignments)}

\* the value the last assignment to the field writes
LastValue(assignments, field) ==
    assignments[CHOOSE i \in 1..Len(assignments) :
                    /\ assignments[i][1] = field
                    /\ \A j \in (i + 1)..Len(assignments) : assignments[j][1] # field][2]

\* the value of the field by the order of the stages: the numeric comparison over
\* the conditional mapping over the regex mappings over the direct mappings
ValueByStage(lower, tablePath, field) ==
    IF field \in AssignedFields(extractNumericConditions(lower, 1))
    THEN LastValue(extractNumericConditions(lower, 1), field)
    ELSE IF field \in AssignedFields(applyConditionalMappings(lower, tablePath))
    THEN LastValue(applyConditionalMappings(lower, tablePath), field)
    ELSE IF field \in AssignedFields(applyRegexMappings(lower, tablePath))
    THEN LastValue(applyRegexMappings(lower, tablePath), field)
    ELSE LastValue(applyFieldMappings(lower, tablePath), field)

\* C26: the map ExtractConditions returns holds the fields the four stages write,
\* each with the value of the latest stage that wrote it (within a stage, of its
\* last assignment); on a bgp neighbor path a query with "down" and without
\* "established" gives session-state != "established"
C26_LaterStageWins ==
    call.op = "ExtractConditions" =>
        /\ DOMAIN results[1].value
              = AssignedFields(applyFieldMappings(ToLower(call.query), call.key))
                  \cup AssignedFields(applyRegexMappings(ToLower(call.query), call.key))
                  \cup AssignedFields(applyConditionalMappings(ToLower(call.query), call.key))
                  \cup AssignedFields(extractNumericConditions(ToLower(call.query), 1))
        /\ \A field \in DOMAIN results[1].value :
              results[1].value[field] = ValueByStage(ToLower(call.query), call.key, field)
        /\ (/\ Contains(call.key, "bgp") /\ Contains(call.key, "neighbor")
            /\ Contains(ToLower(call.query), "down")
            /\ ~Contains(ToLower(call.query), "established"))
              => /\ "session-state" \in DOMAIN results[1].value
                 /\ results[1].value["session-state"] = "!= \"established\""

\* two direct session-state mappings matched and the conditional mapping's value is
\* the one returned
C26_ConditionalOverDirect ==
    /\ call.op = "ExtractConditions"
    /\ call.query = "active or idle neighbors Down"
    /\ {"idle", "active"} \subseteq
          {a[2] : a \in {b \in Range(applyFieldMappings(ToLower(call.query), call.key)) :
                            b[1] = "session-state"}}
    /\ results[1].value["session-state"] = "!= \"established\""

(***************************************************************************)
(* collectTopCandidates receiving candidates in drawn orders               *)
(***************************************************************************)
\* the candidates that arrive first, in a fixed order, and the candidates that
\* arrive after them in any order
PrefixLen == 18
LateCandidates == 5

ArrivalPatterns == {"flat", "ascending", "descending"}

\* scores are above the admission threshold, in units of 1/Scale
PrefixCandidate(pattern, i) ==
    [key   |-> NumberedWords("p", i, i),
     score |-> CASE pattern = "flat"       -> 10 * Scale
                 [] pattern = "ascending"  -> MinScoreThreshold * Scale + i
                 [] pattern = "descending" -> MinScoreThreshold * Scale + PrefixLen + 1 - i]

LateScores == <<6 * Scale, 10 * Scale, 10 * Scale, 15 * Scale, MinScoreThreshold * Scale + 1>>

LateCandidate(i) ==
    [key |-> NumberedWords("q", i, i), score |-> LateScores[((i - 1) % Len(LateScores)) + 1]]

InitTopK ==
    /\ db = LoadedDB["srl.json"]
    /\ \E pattern \in ArrivalPatterns :
            call = [op |-> "collect", pattern |-> pattern, received |-> <<>>,
                    late |-> 1..LateCandidates, minScore |-> MinScoreThreshold * Scale]
    /\ results = <<>>

\* one pass of "for cand := range candidateChan": updateTopCandidates on the
\* candidate received
DoUpdateTopCandidates ==
    /\ call.op = "collect"
    /\ \E cand \in IF Len(call.received) < PrefixLen
                   THEN {PrefixCandidate(call.pattern, Len(call.received) + 1)}
                   ELSE {LateCandidate(i) : i \in call.late} :
          \E st \in {updateTopCandidates([candidates |-> results, minScore |-> call.minScore],
                                         cand)} :
              /\ results' = st.candidates
              /\ call' = [call EXCEPT !.received = Append(call.received, cand),
                                      !.late = IF Len(call.received) < PrefixLen THEN call.late
                                               ELSE {i \in call.late : LateCandidate(i) # cand},
                                      !.minScore = st.minScore]
    /\ db' = db

\* the channel is closed and drained: collectTopCandidates returns candidates
DoCollectReturn ==
    /\ call.op = "collect"
    /\ call' = [call EXCEPT !.op = "returned"]
    /\ results' = results
    /\ db' = db

NextTopK == DoUpdateTopCandidates \/ DoCollectReturn

SpecTopK == InitTopK /\ [][NextTopK]_vars

\* how many candidates of the list have the score
ScoreCount(list, score) == Cardinality({i \in 1..Len(list) : list[i].score = score})

\* how many candidates of score v are among the k highest-scoring of the list
AmongHighest(list, k, v) ==
    CHOOSE n \in
        {IF room <= 0 THEN 0 ELSE IF ScoreCount(list, v) < room THEN ScoreCount(list, v) ELSE room :
           room \in {k - Cardinality({i \in 1..Len(list) : list[i].score > v})}} : TRUE

\* retained holds, score by score, the min(MaxCandidates, n) highest of received
HoldsHighest(retained, received) ==
    /\ Len(retained) <= MaxCandidates
    /\ Len(retained) = IF Len(received) < MaxCandidates THEN Len(received) ELSE MaxCandidates
    /\ \A i \in 1..Len(received) :
          ScoreCount(retained, received[i].score)
              = AmongHighest(received, MaxCandidates, received[i].score)
    /\ Range(retained) \subseteq Range(received)

\* C23: after every candidate received the retained list holds at most
\* MaxCandidates candidates, its scores are the min(MaxCandidates, n) highest of
\* the n received, and a candidate leaves the list only when the candidate just
\* received is in the list with a strictly higher score
C23_BoundedExactRetention ==
    [][/\ HoldsHighest(results', call'.received)
       /\ \A i \in 1..Len(results) :
             results[i] \notin Range(results')
                => /\ call'.received[Len(call'.received)] \in Range(results')
                   /\ call'.received[Len(call'.received)].score > results[i].score]_vars

\* all candidates were received, more than MaxCandidates; one received after the
\* list was full is retained, and one that ties with a retained score is not
C23_EvictedAndTied ==
    /\ call.op = "returned"
    /\ Len(call.received) = PrefixLen + LateCandidates
    /\ Len(results) = MaxCandidates
    /\ \E i \in (MaxCandidates + 1)..Len(call.received) : call.received[i] \in Range(results)
    /\ \E i \in 1..Len(call.received) :
          /\ call.received[i] \notin Range(results)
          /\ \E j \in 1..Len(results) : results[j].score = call.received[i].score

(***************************************************************************)
(* The parallel exhaustive scan (internal/search/engine.go):               *)
(* findTopCandidates, processChunksParallel, processChunk and              *)
(* collectTopCandidates as goroutines                                      *)
(***************************************************************************)
maxWorkers == 4

\* chunkSize and the capacity of candidateChan, scaled down from 2000 and 50
ChunkKeys == 2
ChannelCapacity == 1

\* a score above and a score not above scoreThreshold, in units of 1/Scale
HighScore == MinScoreThreshold * Scale + 2
LowScore == MinScoreThreshold * Scale

\* the scores e.scoreEntry gives the keys of getAllKeys, in its order
ScanScores ==
    {<<>>,
     <<HighScore, LowScore, HighScore>>,
     <<LowScore, LowScore, LowScore, LowScore, LowScore, LowScore, LowScore, LowScore,
       LowScore>>,
     <<HighScore, HighScore, HighScore, LowScore, HighScore, LowScore, HighScore, LowScore,
       HighScore>>}

\* the chunk that starts at key index i (0-based, as the loop counts): its number
ChunkOf(i) == (i \div ChunkKeys) + 1

\* the last key (1-based) of the chunk that starts at 0-based index i:
\* minInt(i+chunkSize, len(keys))
ChunkEnd(i, n) == IF i + ChunkKeys < n THEN i + ChunkKeys ELSE n

NumChunks(n) == (n + ChunkKeys - 1) \div ChunkKeys

\* a faulty send to the semaphore: it never blocks
slotAlwaysFree(semaphore) == semaphore < maxWorkers \/ TRUE

\* the semaphore channel has room for one more token
slotFree(semaphore) == semaphore < maxWorkers

\* a faulty wg.Wait(): it returns at once
waitReturnsAtOnce(wg) == wg = 0 \/ TRUE

\* wg.Wait() can return
waitReturns(wg) == wg = 0

InitScan ==
    /\ \E scores \in ScanScores :
          /\ db = [Table |-> [k \in {NumberedWords("k", i, i) : i \in 1..Len(scores)} |->
                                Entry(k, "", <<>>)],
                   InvertedIndex |-> <<>>]
          /\ call = [op |-> "processChunksParallel", pc |-> "loop", i |-> 0,
                     keys |-> [i \in 1..Len(scores) |-> NumberedWords("k", i, i)],
                     scores |-> scores,
                     wg |-> 0, semaphore |-> 0,
                     workers |-> [c \in 1..NumChunks(Len(scores)) |->
                                    [pc |-> "none", key |-> 0, end |-> 0]],
                     candidateChan |-> <<>>, closed |-> FALSE, closer |-> "none",
                     minScore |-> MinScoreThreshold * Scale,
                     scored |-> [i \in 1..Len(scores) |-> 0],
                     sent |-> <<>>, received |-> <<>>, closes |-> 0, panic |-> FALSE]
    /\ results = <<>>

\* the loop head with keys left: wg.Add(1)
DoWgAdd ==
    /\ call.pc = "loop"
    /\ call.i < Len(call.keys)
    /\ call' = [call EXCEPT !.wg = call.wg + 1, !.pc = "acquire"]
    /\ UNCHANGED <<db, results>>

\* "semaphore <- struct{}{}" and the go statement that starts the chunk's worker
DoAcquireAndGo ==
    /\ call.pc = "acquire"
    /\ slotFree(call.semaphore)
    /\ call' = [call EXCEPT !.semaphore = call.semaphore + 1,
                            !.workers[ChunkOf(call.i)] =
                                [pc |-> "score", key |-> call.i + 1,
                                 end |-> ChunkEnd(call.i, Len(call.keys))],
                            !.i = call.i + ChunkKeys,
                            !.pc = "loop"]
    /\ UNCHANGED <<db, results>>

\* the loop ends: the closing goroutine is started, processChunksParallel returns
\* and collectTopCandidates begins
DoGoCloser ==
    /\ call.pc = "loop"
    /\ call.i >= Len(call.keys)
    /\ call' = [call EXCEPT !.closer = "waiting", !.pc = "collect",
                            !.op = "collectTopCandidates"]
    /\ UNCHANGED <<db, results>>

\* the worker's state after it is through with its key
afterKey(worker) ==
    IF worker.key < worker.end THEN [worker EXCEPT !.pc = "score", !.key = worker.key + 1]
    ELSE [worker EXCEPT !.pc = "release"]

\* processChunk: one key is scored
DoScoreKey ==
    /\ \E c \in DOMAIN call.workers :
          /\ call.workers[c].pc = "score"
          /\ call' = [call EXCEPT
                        !.scored[call.workers[c].key] = call.scored[call.workers[c].key] + 1,
                        !.workers[c] =
                            IF call.scores[call.workers[c].key] > MinScoreThreshold * Scale
                            THEN [call.workers[c] EXCEPT !.pc = "send"]
                            ELSE afterKey(call.workers[c])]
    /\ UNCHANGED <<db, results>>

\* processChunk: "candidateChan <- candidate{...}"; a send on a closed channel
\* panics, a send on a full one waits
DoSendCandidate ==
    /\ \E c \in DOMAIN call.workers :
          /\ call.workers[c].pc = "send"
          /\ call.closed \/ Len(call.candidateChan) < ChannelCapacity
          /\ \E cand \in {[key |-> call.keys[call.workers[c].key],
                           score |-> call.scores[call.workers[c].key]]} :
                call' = IF call.closed THEN [call EXCEPT !.panic = TRUE, !.workers[c].pc = "panic"]
                        ELSE [call EXCEPT !.candidateChan = Append(call.candidateChan, cand),
                                          !.sent = Append(call.sent, cand),
                                          !.workers[c] = afterKey(call.workers[c])]
    /\ UNCHANGED <<db, results>>

\* the worker's second defer runs first: "<-semaphore"
DoReleaseSlot ==
    /\ \E c \in DOMAIN call.workers :
          /\ call.workers[c].pc = "release"
          /\ call' = [call EXCEPT !.semaphore = call.semaphore - 1,
                                  !.workers[c].pc = "done"]
    /\ UNCHANGED <<db, results>>

\* the worker's first defer runs last: wg.Done(), and the goroutine ends
DoWgDone ==
    /\ \E c \in DOMAIN call.workers :
          /\ call.workers[c].pc = "done"
          /\ call' = [call EXCEPT !.wg = call.wg - 1, !.workers[c].pc = "finished"]
    /\ UNCHANGED <<db, results>>

\* the closing goroutine: wg.Wait() returns, close(candidateChan)
DoCloseChan ==
    /\ call.closer = "waiting"
    /\ waitReturns(call.wg)
    /\ call' = [call EXCEPT !.closed = TRUE, !.closes = call.closes + 1, !.closer = "done"]
    /\ UNCHANGED <<db, results>>

\* collectTopCandidates: one candidate is received and updateTopCandidates runs
DoReceiveCandidate ==
    /\ call.pc = "collect"
    /\ call.candidateChan # <<>>
    /\ \E st \in {updateTopCandidates([candidates |-> results, minScore |-> call.minScore],
                                      Head(call.candidateChan))} :
          /\ results' = st.candidates
          /\ call' = [call EXCEPT !.candidateChan = Tail(call.candidateChan),
                                  !.received = Append(call.received, Head(call.candidateChan)),
                                  !.minScore = st.minScore]
    /\ db' = db

\* collectTopCandidates: the channel is closed and empty, the range loop ends and
\* findTopCandidates returns
DoScanReturn ==
    /\ call.pc = "collect"
    /\ call.candidateChan = <<>>
    /\ call.closed
    /\ call' = [call EXCEPT !.pc = "returned", !.op = "returned"]
    /\ UNCHANGED <<db, results>>

NextScan ==
    \/ DoWgAdd \/ DoAcquireAndGo \/ DoGoCloser
    \/ DoScoreKey \/ DoSendCandidate \/ DoReleaseSlot \/ DoWgDone
    \/ DoCloseChan \/ DoReceiveCandidate \/ DoScanReturn

SpecScan == InitScan /\ [][NextScan]_vars

\* the Go scheduler runs every goroutine that can take a step
SpecScanFair ==
    /\ SpecScan
    /\ WF_vars(DoWgAdd \/ DoAcquireAndGo \/ DoGoCloser \/ DoReceiveCandidate \/ DoScanReturn)
    /\ WF_vars(DoScoreKey \/ DoSendCandidate \/ DoReleaseSlot \/ DoWgDone)
    /\ WF_vars(DoCloseChan)

\* the workers that hold a slot of the semaphore
SlotHolders == {c \in DOMAIN call.workers : call.workers[c].pc \in {"score", "send", "release"}}

\* the dispatching goroutine waits for a slot, every worker that holds one waits to
\* send on the full channel, and collectTopCandidates has not begun
DispatcherAndWorkersBlocked ==
    /\ call.pc = "acquire"
    /\ ~slotFree(call.semaphore)
    /\ Len(call.candidateChan) = ChannelCapacity
    /\ \A c \in SlotHolders : call.workers[c].pc = "send"

\* C22: the scan terminates, findTopCandidates returns with every worker finished
\* and the channel closed, and the dispatcher is never blocked on a slot while the
\* workers are blocked on the full channel
C22_ScanTerminates ==
    /\ []~DispatcherAndWorkersBlocked
    /\ <>(/\ call.pc = "returned"
          /\ call.closed
          /\ \A c \in DOMAIN call.workers : call.workers[c].pc = "finished")

\* with five chunks and more admitted entries than the channel holds, four workers
\* wait to send, the fifth chunk waits for a slot and nothing was received
C22_Deadlocked ==
    /\ DispatcherAndWorkersBlocked
    /\ Cardinality(SlotHolders) = maxWorkers
    /\ NumChunks(Len(call.keys)) > maxWorkers
    /\ call.workers[NumChunks(Len(call.keys))].pc = "none"
    /\ call.received = <<>>
    /\ \A c \in DOMAIN call.workers : call.workers[c].pc \in {"send", "none"}

\* the chunk goroutines that were started and have not ended
StartedWorkers ==
    {c \in DOMAIN call.workers : call.workers[c].pc \in {"score", "send", "release", "done"}}

\* every key is scored at most once, by the worker of its own chunk, and exactly
\* once when every worker has finished
ScoredOnceByOwnChunk ==
    /\ \A k \in 1..Len(call.keys) : call.scored[k] <= 1
    /\ \A c \in DOMAIN call.workers :
          call.workers[c].pc # "none" =>
              /\ call.workers[c].end = (IF c * ChunkKeys < Len(call.keys) THEN c * ChunkKeys
                                        ELSE Len(call.keys))
              /\ call.workers[c].key \in ((c - 1) * ChunkKeys + 1)..call.workers[c].end
              /\ \A k \in ((c - 1) * ChunkKeys + 1)..(call.workers[c].key - 1) :
                    call.scored[k] = 1
    /\ (\A c \in DOMAIN call.workers : call.workers[c].pc = "finished")
          => \A k \in 1..Len(call.keys) : call.scored[k] = 1

\* C24 as stated: at most maxWorkers chunk goroutines are started and not
\* finished, and every key is scored once by the one worker of its chunk
C24_AtMostFourGoroutines ==
    /\ Cardinality(StartedWorkers) <= maxWorkers
    /\ ScoredOnceByOwnChunk

\* C24: at most maxWorkers workers hold a slot of the semaphore, that is, are
\* between their start and the release that follows processChunk, and every key is
\* scored once by the one worker of its chunk
C24_AtMostFourInProcessChunk ==
    /\ Cardinality(SlotHolders) = call.semaphore
    /\ call.semaphore <= maxWorkers
    /\ ScoredOnceByOwnChunk

\* four workers are in processChunk and the fifth chunk waits for a slot
C24_FifthChunkWaits ==
    /\ call.pc = "acquire"
    /\ Cardinality(SlotHolders) = maxWorkers
    /\ NumChunks(Len(call.keys)) > maxWorkers
    /\ \E k \in 1..Len(call.keys) : call.scored[k] = 1

\* C25: the channel is closed at most once and only when every worker has
\* finished, no send meets the closed channel, every admitted entry is sent once,
\* the candidates received are the first ones sent, and at the return all of them
C25_ClosedOnceAfterWorkers ==
    /\ call.closes <= 1
    /\ call.closed = (call.closes = 1)
    /\ ~call.panic
    /\ call.closed => \A c \in DOMAIN call.workers : call.workers[c].pc = "finished"
    /\ \A i, j \in 1..Len(call.sent) : call.sent[i].key = call.sent[j].key => i = j
    /\ \A k \in 1..Len(call.keys) :
          (\E i \in 1..Len(call.sent) : call.sent[i].key = call.keys[k])
              => call.scored[k] = 1 /\ call.scores[k] > MinScoreThreshold * Scale
    /\ Len(call.received) <= Len(call.sent)
    /\ call.received = SubSeq(call.sent, 1, Len(call.received))
    /\ call.sent = call.received \o call.candidateChan
    /\ call.pc = "returned" =>
          /\ call.closed
          /\ call.received = call.sent
          /\ Len(call.sent)
                = Cardinality({k \in 1..Len(call.keys) :
                                  call.scores[k] > MinScoreThreshold * Scale})

\* the scan of five chunks returned: the channel was closed after the workers had
\* sent more candidates than it holds, and all of them were received
C25_AllReceivedAtReturn ==
    /\ call.pc = "returned"
    /\ call.closes = 1
    /\ NumChunks(Len(call.keys)) > maxWorkers
    /\ Len(call.received) > ChannelCapacity
    /\ Len(results) = Len(call.sent)

(***************************************************************************)
(* Loader.Load over the memory cache, the binary snapshot and the source   *)
(* (internal/embedding: Loader; internal/cache: DefaultCacheManager)       *)
(***************************************************************************)
\* the modification time of the source files
SourceTime == 2

LoaderPaths == {"srl.json", "sros.json"}

\* DefaultCacheManager.GetBinaryCachePath, for a path without a directory
GetBinaryCachePath(jsonPath) == "." \o jsonPath \o ".cache"

\* a file: its modification time, what its bytes decode as, and the value
fileOf(mtime, kind, content) == [mtime |-> mtime, kind |-> kind, content |-> content]

\* the states of the disk at the start: sros.json has its source and no snapshot;
\* srl.json has no source, one that does not decode or its catalog, and no
\* snapshot, one that does not decode or one written before, at or after the
\* source's modification time
InitialDisks ==
    {sources @@ snapshots @@ ("sros.json" :> fileOf(SourceTime, "json", CatalogTables["sros.json"])) :
        sources \in {<<>>,
                     "srl.json" :> fileOf(SourceTime, "corrupt", <<>>),
                     "srl.json" :> fileOf(SourceTime, "json", CatalogTables["srl.json"])},
        snapshots \in {<<>>, GetBinaryCachePath("srl.json") :> fileOf(SourceTime + 1, "corrupt", <<>>)}
                        \cup {GetBinaryCachePath("srl.json") :> fileOf(t, "gob", LoadedDB["srl.json"]) :
                                t \in {SourceTime - 1, SourceTime, SourceTime + 1}}}

\* a faulty IsBinaryCacheValid: a snapshot as old as the source is taken
IsBinaryCacheValidNotBefore(files, jsonPath, cachePath) ==
    /\ jsonPath \in DOMAIN files
    /\ cachePath \in DOMAIN files
    /\ files[cachePath].mtime >= files[jsonPath].mtime

\* DefaultCacheManager.IsBinaryCacheValid
IsBinaryCacheValid(files, jsonPath, cachePath) ==
    /\ jsonPath \in DOMAIN files
    /\ cachePath \in DOMAIN files
    /\ files[cachePath].mtime > files[jsonPath].mtime

\* DefaultCacheManager.LoadBinaryCache
LoadBinaryCache(files, cachePath) ==
    IF cachePath \in DOMAIN files /\ files[cachePath].kind = "gob"
    THEN [err |-> FALSE, db |-> files[cachePath].content]
    ELSE [err |-> TRUE, db |-> <<>>]

\* Loader.loadJSONFile
loadJSONFile(files, path) ==
    IF path \in DOMAIN files /\ files[path].kind = "json"
    THEN [err |-> FALSE, db |-> [Table |-> files[path].content, InvertedIndex |-> <<>>]]
    ELSE [err |-> TRUE, db |-> <<>>]

\* DefaultCacheManager.SaveBinaryCache: os.Create fails and the disk is as it was,
\* or the file is created and the encoding fails, or the snapshot is written
SaveBinaryCache(files, d, cachePath, write) ==
    CASE write.result = "createFails" -> files
      [] write.result = "encodeFails" ->
            [name \in DOMAIN files \cup {cachePath} |->
                IF name = cachePath THEN fileOf(write.mtime, "corrupt", <<>>) ELSE files[name]]
      [] write.result = "ok" ->
            [name \in DOMAIN files \cup {cachePath} |->
                IF name = cachePath THEN fileOf(write.mtime, "gob", d) ELSE files[name]]

\* DefaultCacheManager.StoreInMemory
StoreInMemory(memory, path, d) ==
    [name \in DOMAIN memory \cup {path} |-> IF name = path THEN d ELSE memory[name]]

\* what writing the snapshot can come to; a written file is newer than the source
WriteOutcomes ==
    {[result |-> r, mtime |-> SourceTime + 1] : r \in {"createFails", "encodeFails", "ok"}}

\* the orders "for key, entry := range db.Table" takes here: the file order and
\* its reverse
DecodedOrders(path) == {CatalogKeyLists[path], Reverse(CatalogKeyLists[path])}

\* the files Load looks at once the memory cache has missed: os.Stat of the source
\* and, when that succeeds, of the snapshot (IsBinaryCacheValid), then one of them
statted(files, path, cachePath) ==
    {path} \cup (IF path \in DOMAIN files THEN {cachePath} ELSE {})

\* Loader.loadFromJSON: decode, postProcessDatabase (BuildInvertedIndex, then
\* saveBinaryCache, whose error is dropped), StoreInMemory; one outcome for each
\* order "for key, entry := range db.Table" may take and each way the write may end
loadFromJSON(memory, files, path, cachePath) ==
    IF loadJSONFile(files, path).err
    THEN {[memory |-> memory, files |-> files, err |-> TRUE, db |-> <<>>, tier |-> "failed",
           reads |-> statted(files, path, cachePath)]}
    ELSE UNION {{[memory |-> StoreInMemory(memory, path, d),
                  files  |-> SaveBinaryCache(files, d, cachePath, write),
                  err |-> FALSE, db |-> d, tier |-> "source",
                  reads |-> statted(files, path, cachePath)] : write \in WriteOutcomes} :
                 d \in {BuildInvertedIndex(loadJSONFile(files, path).db, order) :
                          order \in DecodedOrders(path)}}

\* Loader.Load: loadFromMemoryCache, loadFromBinaryCache, loadFromJSON; the set of
\* its possible outcomes
LoaderLoad(memory, files, path) ==
    IF path \in DOMAIN memory
    THEN {[memory |-> memory, files |-> files, err |-> FALSE, db |-> memory[path],
           tier |-> "memory", reads |-> {}]}
    ELSE IF /\ IsBinaryCacheValid(files, path, GetBinaryCachePath(path))
            /\ ~LoadBinaryCache(files, GetBinaryCachePath(path)).err
    THEN {[memory |-> StoreInMemory(memory, path,
                                    LoadBinaryCache(files, GetBinaryCachePath(path)).db),
           files |-> files, err |-> FALSE,
           db |-> LoadBinaryCache(files, GetBinaryCachePath(path)).db, tier |-> "snapshot",
           reads |-> statted(files, path, GetBinaryCachePath(path))]}
    ELSE loadFromJSON(memory, files, path, GetBinaryCachePath(path))

InitLoad ==
    /\ db = [Table |-> <<>>, InvertedIndex |-> <<>>]
    /\ \E files \in InitialDisks :
          call = [op |-> "NewLoader", path |-> "", tier |-> "", err |-> FALSE,
                  memory |-> <<>>, files |-> files, reads |-> {}]
    /\ results = <<>>

\* loader.Load(path)
DoLoad ==
    \E path \in LoaderPaths :
        \E out \in LoaderLoad(call.memory, call.files, path) :
            /\ call' = [op |-> "Load", path |-> path, tier |-> out.tier, err |-> out.err,
                        memory |-> out.memory, files |-> out.files, reads |-> out.reads]
            /\ results' = IF out.err THEN <<>> ELSE <<out.db>>
            /\ db' = IF out.err THEN db ELSE out.db

\* a new process: NewLoader(NewCacheManager()) on the disk as it is
DoNewLoader ==
    /\ call.op = "Load"
    /\ call' = [call EXCEPT !.op = "NewLoader", !.path = "", !.tier = "", !.err = FALSE,
                            !.memory = <<>>, !.reads = {}]
    /\ results' = <<>>
    /\ db' = [Table |-> <<>>, InvertedIndex |-> <<>>]

NextLoad == DoLoad \/ DoNewLoader

SpecLoad == InitLoad /\ [][NextLoad]_vars

\* the snapshot of the path is there, strictly newer than the source, and decodes
SnapshotUsable(files, path) ==
    /\ {path, GetBinaryCachePath(path)} \subseteq DOMAIN files
    /\ files[GetBinaryCachePath(path)].mtime > files[path].mtime
    /\ files[GetBinaryCachePath(path)].kind = "gob"

\* C21: a Load takes the memory cache first, then the snapshot if it is strictly
\* newer than the source and decodes, then the source; from the source the index
\* is built, the snapshot write may fail without failing the Load, and the catalog
\* is stored in memory; a Load that follows a successful Load of the path on the
\* same loader returns the same catalog from memory; a failed Load stores nothing
C21_TiersInOrder ==
    [][call'.op = "Load" =>
        /\ call'.path \in DOMAIN call.memory =>
              /\ call'.tier = "memory"
              /\ results' = <<call.memory[call'.path]>>
              /\ call'.memory = call.memory /\ call'.files = call.files
              /\ call'.reads = {}
        /\ call'.path \notin DOMAIN call.memory => call'.path \in call'.reads
        /\ (call'.path \notin DOMAIN call.memory /\ SnapshotUsable(call.files, call'.path)) =>
              /\ call'.tier = "snapshot"
              /\ results' = <<call.files[GetBinaryCachePath(call'.path)].content>>
              /\ call'.files = call.files
        /\ (call'.path \notin DOMAIN call.memory /\ ~SnapshotUsable(call.files, call'.path)) =>
              IF call'.path \in DOMAIN call.files /\ call.files[call'.path].kind = "json"
              THEN /\ call'.tier = "source" /\ ~call'.err
                   /\ results'[1].Table = call.files[call'.path].content
                   /\ \E order \in DecodedOrders(call'.path) :
                         results'[1].InvertedIndex
                            = buildIndex([Table |-> call.files[call'.path].content], order, TRUE)
                   /\ \A name \in DOMAIN call'.files \ {GetBinaryCachePath(call'.path)} :
                         name \in DOMAIN call.files /\ call'.files[name] = call.files[name]
                   /\ \/ call'.files = call.files
                      \/ call'.files[GetBinaryCachePath(call'.path)].kind = "corrupt"
                      \/ call'.files[GetBinaryCachePath(call'.path)].content = results'[1]
              ELSE call'.err /\ call'.tier = "failed"
        /\ ~call'.err =>
              /\ call'.path \in DOMAIN call'.memory
              /\ call'.memory[call'.path] = results'[1]
              /\ \A other \in DOMAIN call'.memory \ {call'.path} :
                    other \in DOMAIN call.memory /\ call'.memory[other] = call.memory[other]
        /\ call'.err => results' = <<>> /\ call'.memory = call.memory /\ call'.files = call.files
        /\ (call.op = "Load" /\ ~call.err /\ call.path = call'.path) =>
              call'.tier = "memory" /\ results' = results]_vars

\* a Load from the source whose snapshot write failed was followed by a Load of
\* the same path, answered from memory with the same catalog
C21_SecondLoadFromMemory ==
    /\ call.op = "Load"
    /\ call.path = "srl.json"
    /\ call.tier = "memory"
    /\ results = <<call.memory["srl.json"]>>
    /\ DOMAIN results[1].InvertedIndex # {}
    /\ GetBinaryCachePath("srl.json") \in DOMAIN call.files
    /\ call.files[GetBinaryCachePath("srl.json")].kind = "corrupt"
    /\ "sros.json" \in DOMAIN call.memory

====
